---- MODULE Spec2Model ----
(***************************************************************************)
(* Model of the housing-safety advisory core:                              *)
(*   src/src/core/tradeoff_analyzer.py  (TradeOffAnalyzer)                 *)
(*   src/src/core/safety_guardrails.py  (query guardrail)                  *)
(*   src/src/core/risk_engine.py        (RiskEngine)                       *)
(*                                                                         *)
(* Representation of numbers.  Money is counted in units of 1000 KES: the  *)
(* code only forms the ratio rent/budget_max and compares rent with        *)
(* thresholds that are multiples of 1000.  A score is a Python float; here *)
(* a score x is the integer x * Ticks(budget_max), which is exact for every*)
(* value the scoring functions produce (the only non-constant denominators *)
(* are budget_max, in the over-budget penalty, and 2, in the commute       *)
(* penalty), so sums and comparisons are those of exact arithmetic.        *)
(*                                                                         *)
(* Text is a TLA+ string; Len, SubSeq and \o act on its characters.        *)
(***************************************************************************)
EXTENDS Integers, Sequences, FiniteSets, TLC

VARIABLES
    weights,        \* TradeOffAnalyzer.weights (hundredths)
    priorities,     \* TradeOffAnalyzer.priorities
    call,           \* inputs of the last analyzer call
    comparison,     \* TradeOffComparison returned by the last analyze_options
    scored,         \* TradeOffScore returned by the last _score_option
    guardrail,      \* GuardrailResult returned by the last validate_query
    reframed,       \* text returned by the last reframe_query
    rules,          \* RiskEngine._rules
    profile,        \* RiskProfile returned by the last evaluate
    cleaned,        \* text returned by the last postprocess_response
    threads,        \* the concurrent calls on the shared engine and analyzer
    conversation_history,   \* interactive_chat: the list of messages
    sent,           \* the contents of every generate_content call made so far
    chat            \* interactive_chat and run_housing_agent: position and local variables

vars == <<weights, priorities, call, comparison, scored, guardrail, reframed, rules, profile,
          cleaned, threads, conversation_history, sent, chat>>

chatVars == <<conversation_history, sent, chat>>

None == "None"

\* no call has been made yet
NoCall == [op |-> "none"]

(***************************************************************************)
(* Bounds                                                                  *)
(***************************************************************************)
MaxOptions == 3
MaxAmenities == 7
MaxPhrases == 2
MaxCommute == 180
MaxFactors == 4
MaxCompared == 2
MaxSentences == 2
MaxThreads == 2
MaxTurns == 2

(***************************************************************************)
(* Strings                                                                 *)
(***************************************************************************)
UPPERCASE == "ABCDEFGHIJKLMNOPQRSTUVWXYZ"
LOWERCASE == "abcdefghijklmnopqrstuvwxyz"

Char(s, i) == IF i >= 1 /\ i <= Len(s) THEN SubSeq(s, i, i) ELSE ""

\* str.lower() of one character
LowerOf == [c \in {SubSeq(UPPERCASE, k, k) : k \in 1..Len(UPPERCASE)} |->
               LET k == CHOOSE k \in 1..Len(UPPERCASE) : SubSeq(UPPERCASE, k, k) = c
               IN SubSeq(LOWERCASE, k, k)]

\* str.upper() of one character
UpperOf == [c \in {SubSeq(LOWERCASE, k, k) : k \in 1..Len(LOWERCASE)} |->
               LET k == CHOOSE k \in 1..Len(LOWERCASE) : SubSeq(LOWERCASE, k, k) = c
               IN SubSeq(UPPERCASE, k, k)]

LowerChar(c) == IF c \in DOMAIN LowerOf THEN LowerOf[c] ELSE c

UpperChar(c) == IF c \in DOMAIN UpperOf THEN UpperOf[c] ELSE c

\* str.lower(): character by character, the string split in halves
RECURSIVE Lower(_)
Lower(s) ==
    IF Len(s) <= 1 THEN LowerChar(s)
    ELSE LET m == Len(s) \div 2
         IN Lower(SubSeq(s, 1, m)) \o Lower(SubSeq(s, m + 1, Len(s)))

\* Python's `sub in s` on strings
Contains(s, sub) == \E i \in 1..(Len(s) - Len(sub) + 1) : SubSeq(s, i, i + Len(sub) - 1) = sub

\* Python's `x in list`
InList(x, list) == \E i \in 1..Len(list) : list[i] = x

\* dict.get(key, default)
Get(d, key, default) == IF key \in DOMAIN d THEN d[key] ELSE default

Max(a, b) == IF a >= b THEN a ELSE b
Min(a, b) == IF a <= b THEN a ELSE b

(***************************************************************************)
(* Regular expressions of Python's re module, as far as the guardrail uses *)
(* them.  A pattern is a sequence of elements; FirstEnd is the backtracking*)
(* matcher: alternatives in order, .* greedy, so that the match found at a *)
(* position is the one re finds there.                                     *)
(***************************************************************************)
WordChars == {SubSeq(UPPERCASE, k, k) : k \in 1..Len(UPPERCASE)}
             \cup {SubSeq(LOWERCASE, k, k) : k \in 1..Len(LOWERCASE)}
             \cup {"0", "1", "2", "3", "4", "5", "6", "7", "8", "9", "_"}

WhiteSpace == {" ", "\t", "\n", "\r"}

L(str) == [k |-> "lit", s |-> str]          \* the literal text str
ANY == [k |-> "any"]                        \* .*
WB == [k |-> "b"]                           \* \b
WS == [k |-> "ws"]                          \* \s+
Cls(chars) == [k |-> "cls", s |-> chars]    \* [chars]
Alt(alts) == [k |-> "alt", alts |-> alts]   \* (a1|a2|...), each a pattern
Lits(strs) == Alt([n \in 1..Len(strs) |-> <<L(strs[n])>>])   \* (s1|s2|...)
Gap(a, b) == <<L(a), ANY, L(b)>>            \* a.*b

\* \b matches at i: exactly one of the characters before and at i is a word character
IsBoundary(s, i) == (Char(s, i - 1) \in WordChars) # (Char(s, i) \in WordChars)

\* the furthest position .* can reach from i: it does not cross a newline
AnyLimit(s, i) ==
    LET nl == {k \in i..Len(s) : SubSeq(s, k, k) = "\n"}
    IN IF nl = {} THEN Len(s) + 1 ELSE CHOOSE k \in nl : \A m \in nl : k <= m

\* the furthest position \s+ can reach from i (i itself when no whitespace is at i)
RECURSIVE SpaceLimit(_, _)
SpaceLimit(s, i) == IF Char(s, i) \in WhiteSpace THEN SpaceLimit(s, i + 1) ELSE i

RECURSIVE FirstEnd(_, _, _)
RECURSIVE FirstEndDown(_, _, _, _)
RECURSIVE FirstEndAlt(_, _, _, _, _)

\* the position after the first match of pat in s that starts at i, 0 when there is none
FirstEnd(pat, s, i) ==
    IF Len(pat) = 0 THEN i
    ELSE LET e == pat[1]
             rest == Tail(pat)
         IN CASE e.k = "lit" ->
                    IF i + Len(e.s) - 1 <= Len(s) /\ SubSeq(s, i, i + Len(e.s) - 1) = e.s
                    THEN FirstEnd(rest, s, i + Len(e.s)) ELSE 0
              [] e.k = "cls" ->
                    IF i <= Len(s) /\ Contains(e.s, SubSeq(s, i, i))
                    THEN FirstEnd(rest, s, i + 1) ELSE 0
              [] e.k = "b" -> IF IsBoundary(s, i) THEN FirstEnd(rest, s, i) ELSE 0
              [] e.k = "any" -> FirstEndDown(rest, s, AnyLimit(s, i), i)
              [] e.k = "ws" -> FirstEndDown(rest, s, SpaceLimit(s, i), i + 1)
              [] e.k = "alt" -> FirstEndAlt(e.alts, 1, rest, s, i)

\* greedy repetition: the rest of the pattern is tried from position hi down to lo,
\* so the match is the one from the largest position where the rest matches
FirstEndDown(rest, s, hi, lo) ==
    LET ends == {k \in lo..hi : FirstEnd(rest, s, k) # 0}
    IN IF ends = {} THEN 0
       ELSE FirstEnd(rest, s, CHOOSE k \in ends : \A m \in ends : m <= k)

\* alternation: the alternatives are tried in order, each followed by the rest
FirstEndAlt(alts, n, rest, s, i) ==
    IF n > Len(alts) THEN 0
    ELSE LET r == FirstEnd(alts[n] \o rest, s, i)
         IN IF r # 0 THEN r ELSE FirstEndAlt(alts, n + 1, rest, s, i)

\* re.search(pat, s) finds a match
Search(pat, s) == \E i \in 1..(Len(s) + 1) : FirstEnd(pat, s, i) # 0

\* re.sub(pat, repl, s, flags=re.IGNORECASE) from position pos on; low is s.lower(),
\* on which the lower-case patterns match exactly where they match s ignoring case
RECURSIVE SubFrom(_, _, _, _, _)
SubFrom(pat, repl, s, low, pos) ==
    LET starts == {p \in pos..Len(s) : FirstEnd(pat, low, p) > p}
    IN IF starts = {} THEN SubSeq(s, pos, Len(s))
       ELSE LET p == CHOOSE p \in starts : \A q \in starts : p <= q
            IN SubSeq(s, pos, p - 1) \o repl \o SubFrom(pat, repl, s, low, FirstEnd(pat, low, p))

SubIgnoreCase(pat, repl, s) == SubFrom(pat, repl, s, Lower(s), 1)

\* str.title(): a letter after a non-letter in upper case, every other letter in lower case
RECURSIVE TitleFrom(_, _)
TitleFrom(s, i) ==
    IF i > Len(s) THEN ""
    ELSE LET c == SubSeq(s, i, i)
             after_letter == Char(s, i - 1) \in (DOMAIN LowerOf \cup DOMAIN UpperOf)
         IN (IF after_letter THEN LowerChar(c) ELSE UpperChar(c)) \o TitleFrom(s, i + 1)

Title(s) == TitleFrom(s, 1)

(***************************************************************************)
(* TradeOffAnalyzer                                                        *)
(***************************************************************************)
DEFAULT_WEIGHTS == [cost |-> 30, commute |-> 25, convenience |-> 20, transport |-> 15, amenities |-> 10]

WeightOrder == <<"cost", "commute", "convenience", "transport", "amenities">>

DEFAULT_PRIORITIES == <<"cost", "commute", "transport", "amenities">>

\* number of integer ticks that represent one score point for this budget
Ticks(budget_max) == 200 * (IF budget_max > 0 THEN budget_max ELSE 1)

\* _score_cost without the max(0, ...) that clamps the over-budget penalty
_score_cost_unclamped(rent, budget_max) ==
    LET T == Ticks(budget_max) IN
    IF rent <= 0 THEN 50 * T
    ELSE IF budget_max <= 0 THEN 60 * T
    ELSE IF 2 * rent <= budget_max THEN 100 * T
    ELSE IF 10 * rent <= 7 * budget_max THEN 90 * T
    ELSE IF 20 * rent <= 17 * budget_max THEN 75 * T
    ELSE IF rent <= budget_max THEN 60 * T
    ELSE 60 * T - (rent - budget_max) * 50 * 200

_score_cost(rent, budget_max) ==
    LET T == Ticks(budget_max) IN
    IF rent <= 0 THEN 50 * T
    ELSE IF budget_max <= 0 THEN 60 * T
    ELSE IF 2 * rent <= budget_max THEN 100 * T
    ELSE IF 10 * rent <= 7 * budget_max THEN 90 * T
    ELSE IF 20 * rent <= 17 * budget_max THEN 75 * T
    ELSE IF rent <= budget_max THEN 60 * T
    ELSE Max(0, 60 * T - (rent - budget_max) * 50 * 200)

_score_commute(commute, target, T) ==
    IF commute <= target THEN 100 * T
    ELSE IF 4 * commute <= 5 * target THEN 85 * T
    ELSE IF 2 * commute <= 3 * target THEN 70 * T
    ELSE IF commute <= target * 2 THEN 50 * T
    ELSE Max(0, 30 * T - (commute - target * 2) * (T \div 2))

LowerList(list) == [i \in 1..Len(list) |-> Lower(list[i])]

_score_transport(option, T) ==
    LET transport == LowerList(Get(option, "transport_options", <<>>))
        score == 50
                 + (IF InList("matatu", transport) THEN 20 ELSE 0)
                 + (IF InList("bodaboda", transport) THEN 15 ELSE 0)
                 + (IF InList("bus", transport) THEN 15 ELSE 0)
                 + (IF InList("walking", transport) THEN 10 ELSE 0)
                 + (IF InList("private", transport) THEN 5 ELSE 0)
    IN Min(100, score) * T

_score_convenience(transport_score, amenities_count, T) ==
    LET amenities_score == Min(50, amenities_count * 10) * T
    IN (transport_score * 6 + amenities_score * 4) \div 10

_score_amenities(count, T) == Min(100, count * 15) * T

_calculate_safety_score(option, T) ==
    LET transport == LowerList(Get(option, "transport_options", <<>>))
        commute == Get(option, "commute_minutes", 30)
        amenities == LowerList(Get(option, "amenities", <<>>))
        has_market == \E i \in 1..Len(amenities) : Contains(amenities[i], "market")
        has_health == \E i \in 1..Len(amenities) :
                          Contains(amenities[i], "hospital") \/ Contains(amenities[i], "clinic")
        score == 70
                 + (IF InList("matatu", transport) THEN 5 ELSE 0)
                 - (IF commute > 60 THEN 5 ELSE 0)
                 + (IF has_market THEN 5 ELSE 0)
                 + (IF has_health THEN 5 ELSE 0)
    IN Max(0, Min(100, score)) * T

\* scores.get(category, 50) * weight, summed over self.weights.items()
RECURSIVE WeightedSum(_, _, _, _)
WeightedSum(w, scores, T, i) ==
    IF i > Len(WeightOrder) THEN 0
    ELSE LET category == WeightOrder[i]
         IN Get(scores, category, 50 * T) * w[category] + WeightedSum(w, scores, T, i + 1)

_calculate_weighted_total(w, scores, T) == WeightedSum(w, scores, T, 1) \div 100

_identify_strengths(option, cost_score, commute_score, transport_score, T) ==
    LET name == Get(option, "name", "This area")
        s1 == IF cost_score >= 90 * T THEN <<name \o " offers excellent value within your budget">>
              ELSE IF cost_score >= 75 * T THEN <<name \o " is reasonably priced">>
              ELSE <<>>
        s2 == IF commute_score >= 90 * T THEN <<"Very short commute from " \o name>>
              ELSE IF commute_score >= 75 * T THEN <<name \o " has a manageable commute">>
              ELSE <<>>
        s3 == IF transport_score >= 80 * T
              THEN <<"Multiple transport options available near " \o name>> ELSE <<>>
        s4 == IF Len(Get(option, "amenities", <<>>)) >= 4
              THEN <<"Good local amenities (market, shops, services)">> ELSE <<>>
        strengths == s1 \o s2 \o s3 \o s4
    IN IF strengths = <<>> THEN <<name \o " may suit your specific priorities">> ELSE strengths

\* _identify_tradeoffs without the sentence for an option that triggers none
_identify_tradeoffs_no_fallback(option, rent, commute, transport_score, T) ==
    LET name == Get(option, "name", "This area")
        t1 == IF rent < 40 /\ commute > 45 THEN <<"Lower rent in " \o name \o " but longer commute">>
              ELSE IF rent > 70 /\ commute < 30
                   THEN <<"Shorter commute in " \o name \o " comes with higher rent">>
              ELSE <<>>
        t2 == IF transport_score < 60 * T
              THEN <<"Limited transport options in " \o name \o " - consider availability">>
              ELSE <<>>
        t3 == IF rent > 60 THEN <<"Higher rent means less flexibility for other expenses">> ELSE <<>>
        t4 == IF commute > 60 THEN <<"Long commute reduces time for other activities">> ELSE <<>>
    IN t1 \o t2 \o t3 \o t4

_identify_tradeoffs(option, rent, commute, transport_score, T) ==
    LET name == Get(option, "name", "This area")
        t1 == IF rent < 40 /\ commute > 45 THEN <<"Lower rent in " \o name \o " but longer commute">>
              ELSE IF rent > 70 /\ commute < 30
                   THEN <<"Shorter commute in " \o name \o " comes with higher rent">>
              ELSE <<>>
        t2 == IF transport_score < 60 * T
              THEN <<"Limited transport options in " \o name \o " - consider availability">>
              ELSE <<>>
        t3 == IF rent > 60 THEN <<"Higher rent means less flexibility for other expenses">> ELSE <<>>
        t4 == IF commute > 60 THEN <<"Long commute reduces time for other activities">> ELSE <<>>
        tradeoffs == t1 \o t2 \o t3 \o t4
    IN IF tradeoffs = <<>> THEN <<name \o " offers balanced trade-offs for your criteria">>
       ELSE tradeoffs

_generate_warnings(option, rent, budget_max, commute) ==
    LET transport == Get(option, "transport_options", <<>>)
        w1 == IF rent > budget_max THEN <<"Rent exceeds your stated budget">> ELSE <<>>
        w2 == IF commute > 90 THEN <<"Very long commute - consider time and transport costs">>
              ELSE <<>>
        w3 == IF transport = <<>> \/ (Len(transport) = 1 /\ InList("walking", transport))
              THEN <<"Limited transport options - verify reliability">> ELSE <<>>
    IN w1 \o w2 \o w3

\* _score_option with a missing rent or commute taken as 0
_score_option_missing_as_zero(w, option, budget_max, target_commute) ==
    LET T == Ticks(budget_max)
        rent == Get(option, "rent_kes", 0)
        commute == Get(option, "commute_minutes", 0)
        transport_score == _score_transport(option, T)
        amenities_count == Len(Get(option, "amenities", <<>>))
        cost_score == _score_cost(rent, budget_max)
        commute_score == _score_commute(commute, target_commute, T)
        convenience_score == _score_convenience(transport_score, amenities_count, T)
        priority_scores == [safety_concerns |-> _calculate_safety_score(option, T),
                            cost |-> cost_score,
                            commute |-> commute_score,
                            transport |-> transport_score,
                            amenities |-> _score_amenities(amenities_count, T)]
    IN [option_name |-> Get(option, "name", "Unknown"),
        total_score |-> _calculate_weighted_total(w, priority_scores, T),
        cost_score |-> cost_score,
        commute_score |-> commute_score,
        convenience_score |-> convenience_score,
        priority_scores |-> priority_scores,
        strengths |-> _identify_strengths(option, cost_score, commute_score, transport_score, T),
        trade_offs |-> _identify_tradeoffs(option, rent, commute, transport_score, T),
        warnings |-> _generate_warnings(option, rent, budget_max, commute)]

_score_option(w, option, budget_max, target_commute) ==
    LET T == Ticks(budget_max)
        rent == Get(option, "rent_kes", 50)
        commute == Get(option, "commute_minutes", 30)
        transport_score == _score_transport(option, T)
        amenities_count == Len(Get(option, "amenities", <<>>))
        cost_score == _score_cost(rent, budget_max)
        commute_score == _score_commute(commute, target_commute, T)
        convenience_score == _score_convenience(transport_score, amenities_count, T)
        priority_scores == [safety_concerns |-> _calculate_safety_score(option, T),
                            cost |-> cost_score,
                            commute |-> commute_score,
                            transport |-> transport_score,
                            amenities |-> _score_amenities(amenities_count, T)]
    IN [option_name |-> Get(option, "name", "Unknown"),
        total_score |-> _calculate_weighted_total(w, priority_scores, T),
        cost_score |-> cost_score,
        commute_score |-> commute_score,
        convenience_score |-> convenience_score,
        priority_scores |-> priority_scores,
        strengths |-> _identify_strengths(option, cost_score, commute_score, transport_score, T),
        trade_offs |-> _identify_tradeoffs(option, rent, commute, transport_score, T),
        warnings |-> _generate_warnings(option, rent, budget_max, commute)]

\* sorted(scored_options, key=lambda x: x.total_score, reverse=True): a stable sort,
\* so an element goes after every element whose key is at least its own
\* a sort that puts an element before the elements of equal key
RECURSIVE InsertBeforeEqual(_, _)
InsertBeforeEqual(ranked, x) ==
    IF ranked = <<>> THEN <<x>>
    ELSE IF Head(ranked).total_score > x.total_score
         THEN <<Head(ranked)>> \o InsertBeforeEqual(Tail(ranked), x)
         ELSE <<x>> \o ranked

RECURSIVE InsertByScore(_, _)
InsertByScore(ranked, x) ==
    IF ranked = <<>> THEN <<x>>
    ELSE IF Head(ranked).total_score >= x.total_score
         THEN <<Head(ranked)>> \o InsertByScore(Tail(ranked), x)
         ELSE <<x>> \o ranked

RECURSIVE SortedByScore(_)
SortedByScore(list) ==
    IF list = <<>> THEN <<>>
    ELSE InsertByScore(SortedByScore(SubSeq(list, 1, Len(list) - 1)), list[Len(list)])

Abs(x) == IF x < 0 THEN -x ELSE x

\* f"{x:.0f}" of the non-negative score x = ticks / T: nearest integer, ties to even
Format0f(ticks, T) ==
    LET q == ticks \div T
        r == ticks % T
    IN ToString(IF 2 * r > T \/ (2 * r = T /\ q % 2 = 1) THEN q + 1 ELSE q)

_identify_differences(ranked, T) ==
    IF Len(ranked) < 2 THEN <<"Only one option to compare">>
    ELSE LET best == ranked[1]
             second == ranked[2]
             cost_diff == best.cost_score - second.cost_score
             commute_diff == best.commute_score - second.commute_score
             transport_diff == best.priority_scores.transport - second.priority_scores.transport
             d1 == IF Abs(cost_diff) > 10 * T
                   THEN <<"Cost: "
                          \o (IF cost_diff > 0 THEN "Lower rent option" ELSE "Higher rent option")
                          \o " scores " \o Format0f(Abs(cost_diff), T) \o "% better">>
                   ELSE <<>>
             d2 == IF Abs(commute_diff) > 10 * T
                   THEN <<"Commute: "
                          \o (IF commute_diff > 0 THEN "Shorter commute" ELSE "Longer commute")
                          \o " option scores " \o Format0f(Abs(commute_diff), T) \o "% better">>
                   ELSE <<>>
             d3 == IF Abs(transport_diff) > 15 * T
                   THEN <<"Transport: "
                          \o (IF transport_diff > 0 THEN "Better transport" ELSE "Limited transport")
                          \o " option is " \o Format0f(Abs(transport_diff), T) \o "% better">>
                   ELSE <<>>
         IN d1 \o d2 \o d3

\* The summary paragraph, as the sequence of the pieces the code concatenates; the
\* budget figure is kept as the number the f-string formats.
_generate_summary(ranked, budget_max) ==
    IF ranked = <<>> THEN <<"No options to compare.">>
    ELSE LET best == ranked[1]
         IN <<"Based on your criteria and budget of KES ", budget_max,
              best.option_name, " appears to offer the best balance with:">>
            \o SubSeq(best.strengths, 1, Min(2, Len(best.strengths)))
            \o <<"Key trade-off: ",
                 IF best.trade_offs # <<>> THEN best.trade_offs[1] ELSE "Balanced across criteria">>
            \o (IF best.warnings # <<>> THEN <<"Note: ", best.warnings[1]>> ELSE <<>>)
            \o <<"*This is advisory information. Visit areas personally and verify current rents.*">>

analyze_options(w, options, budget_max, workplace_minutes) ==
    LET scored_options == [i \in 1..Len(options) |->
                              _score_option(w, options[i], budget_max, workplace_minutes)]
        ranked == SortedByScore(scored_options)
    IN [options |-> scored_options,
        ranked_order |-> [i \in 1..Len(ranked) |-> ranked[i].option_name],
        key_differences |-> _identify_differences(ranked, Ticks(budget_max)),
        recommendation_summary |-> _generate_summary(ranked, budget_max)]

(***************************************************************************)
(* RiskEngine                                                              *)
(*                                                                         *)
(* A member of an Enum is the pair of its class and its value: members of  *)
(* different classes are never equal.  risk_engine.py imports ReturnTime,  *)
(* LivingArrangement and TransportMode from the models module and then     *)
(* defines classes of the same names, which are the ones its rules name.   *)
(* budget_comfort is counted in hundredths.                                *)
(***************************************************************************)
Member(module, class, value) == [module |-> module, class |-> class, value |-> value]

\* the classes defined in risk_engine.py
EngineEnum(class, value) == Member("risk_engine", class, value)

\* the classes defined in models/housing_models.py
ModelsEnum(class, value) == Member("housing_models", class, value)

LOW == EngineEnum("RiskLevel", "low")
MODERATE == EngineEnum("RiskLevel", "moderate")
ELEVATED == EngineEnum("RiskLevel", "elevated")

\* the rule records of _initialize_rules; the "check" of a rule is RuleCheck
_initialize_rules == <<
    [id |-> "commute_duration", name |-> "Long Commute Duration",
     description |-> "Long commute times increase exposure to various situations",
     mitigation |-> "Consider options closer to workplace or adjust timing",
     elevated_threshold |-> 90, moderate_threshold |-> 45],
    [id |-> "night_return", name |-> "Night Return Time",
     description |-> "Returning late at night may have different considerations",
     mitigation |-> "Plan reliable transport options in advance"],
    [id |-> "evening_return", name |-> "Evening Return Time",
     description |-> "Evening returns may have different transport availability",
     mitigation |-> "Check matatu/bus schedules for evening availability"],
    [id |-> "walking_commute", name |-> "Walking as Primary Transport",
     description |-> "Walking entire commute depends on distance and route",
     mitigation |-> "Ensure route is well-lit and populated during your travel times"],
    [id |-> "bodaboda_commute", name |-> "Bodaboda Transport",
     description |-> "Bodaboda transport is common but safety depends on helmet use and rider behavior",
     mitigation |-> "Always wear helmet, agree on fare before riding"],
    [id |-> "alone_living", name |-> "Living Alone",
     description |-> "Living alone means no immediate household support",
     mitigation |-> "Establish local contacts and emergency contacts"],
    [id |-> "new_area", name |-> "New to Area",
     description |-> "Unfamiliarity with an area means learning local norms and routes",
     mitigation |-> "Spend time exploring the area during daytime first"],
    [id |-> "budget_tight", name |-> "Tight Budget Constraints",
     description |-> "Very tight budgets may limit housing options to less central areas",
     mitigation |-> "Consider commute trade-offs vs housing quality"] >>

\* evaluate puts all eight keys in the context, so ctx.get never uses its default.
\* A key whose value is None is left out of the context record.
IsNone(ctx, key) == key \notin DOMAIN ctx

NoneValue == Member("builtins", "NoneType", "None")

\* ctx.get(key) where the value is compared with == only
Value(ctx, key) == IF IsNone(ctx, key) THEN NoneValue ELSE ctx[key]

\* rule["check"](ctx) raises TypeError: None > 60 and None < 0.7
CheckRaises(rule, ctx) ==
    CASE rule.id = "commute_duration" -> IsNone(ctx, "commute_minutes")
      [] rule.id = "budget_tight" -> IsNone(ctx, "budget_comfort")
      [] OTHER -> FALSE

\* rule["check"](ctx) with the commute rule firing above the moderate threshold
RuleCheckAboveModerate(rule, ctx) ==
    CASE rule.id = "commute_duration" -> ctx.commute_minutes > 45
      [] rule.id = "night_return" -> Value(ctx, "return_time") = EngineEnum("ReturnTime", "night")
      [] rule.id = "evening_return" ->
             Value(ctx, "return_time") = EngineEnum("ReturnTime", "evening")
      [] rule.id = "walking_commute" ->
             Value(ctx, "transport_mode") = EngineEnum("TransportMode", "walking")
      [] rule.id = "bodaboda_commute" ->
             Value(ctx, "transport_mode") = EngineEnum("TransportMode", "bodaboda")
      [] rule.id = "alone_living" ->
             Value(ctx, "living_arrangement") = EngineEnum("LivingArrangement", "alone")
      [] rule.id = "new_area" -> IsNone(ctx, "familiar_with_area") \/ ~ctx.familiar_with_area
      [] rule.id = "budget_tight" -> ctx.budget_comfort < 70

\* rule["check"](ctx), where it does not raise
RuleCheck(rule, ctx) ==
    CASE rule.id = "commute_duration" -> ctx.commute_minutes > 60
      [] rule.id = "night_return" -> Value(ctx, "return_time") = EngineEnum("ReturnTime", "night")
      [] rule.id = "evening_return" ->
             Value(ctx, "return_time") = EngineEnum("ReturnTime", "evening")
      [] rule.id = "walking_commute" ->
             Value(ctx, "transport_mode") = EngineEnum("TransportMode", "walking")
      [] rule.id = "bodaboda_commute" ->
             Value(ctx, "transport_mode") = EngineEnum("TransportMode", "bodaboda")
      [] rule.id = "alone_living" ->
             Value(ctx, "living_arrangement") = EngineEnum("LivingArrangement", "alone")
      [] rule.id = "new_area" -> IsNone(ctx, "familiar_with_area") \/ ~ctx.familiar_with_area
      [] rule.id = "budget_tight" -> ctx.budget_comfort < 70

\* _determine_risk_level with the two threshold tests in the other order
_determine_risk_level_moderate_first(rule, context) ==
    IF rule.id = "commute_duration"
    THEN LET commute == context.commute_minutes
             elevated_threshold == Get(rule, "elevated_threshold", 90)
             moderate_threshold == Get(rule, "moderate_threshold", 45)
         IN IF commute > moderate_threshold THEN MODERATE
            ELSE IF commute > elevated_threshold THEN ELEVATED
            ELSE LOW
    ELSE MODERATE

\* _determine_risk_level with a night return counted as elevated
_determine_risk_level_night_elevated(rule, context) ==
    IF rule.id = "commute_duration"
    THEN LET commute == context.commute_minutes
             elevated_threshold == Get(rule, "elevated_threshold", 90)
             moderate_threshold == Get(rule, "moderate_threshold", 45)
         IN IF commute > elevated_threshold THEN ELEVATED
            ELSE IF commute > moderate_threshold THEN MODERATE
            ELSE LOW
    ELSE IF rule.id = "night_return" THEN ELEVATED
    ELSE MODERATE

\* _determine_risk_level with the other rules' level taken from the commute thresholds too
_determine_risk_level_thresholds_for_all(rule, context) ==
    LET commute == context.commute_minutes
        elevated_threshold == Get(rule, "elevated_threshold", 90)
        moderate_threshold == Get(rule, "moderate_threshold", 45)
    IN IF commute > elevated_threshold THEN ELEVATED
       ELSE IF commute > moderate_threshold THEN MODERATE
       ELSE LOW

_determine_risk_level(rule, context) ==
    IF rule.id = "commute_duration"
    THEN LET commute == context.commute_minutes
             elevated_threshold == Get(rule, "elevated_threshold", 90)
             moderate_threshold == Get(rule, "moderate_threshold", 45)
         IN IF commute > elevated_threshold THEN ELEVATED
            ELSE IF commute > moderate_threshold THEN MODERATE
            ELSE LOW
    ELSE MODERATE

CountLevel(risk_factors, level) ==
    Cardinality({i \in 1..Len(risk_factors) : risk_factors[i].risk_level = level})

\* _calculate_overall_risk with one elevated factor enough for an elevated profile
_calculate_overall_risk_any_elevated(risk_factors) ==
    IF risk_factors = <<>> THEN LOW
    ELSE LET elevated_count == CountLevel(risk_factors, ELEVATED)
             moderate_count == CountLevel(risk_factors, MODERATE)
         IN IF elevated_count >= 1 THEN ELEVATED
            ELSE IF moderate_count >= 1 THEN MODERATE
            ELSE LOW

_calculate_overall_risk(risk_factors) ==
    IF risk_factors = <<>> THEN LOW
    ELSE LET elevated_count == CountLevel(risk_factors, ELEVATED)
             moderate_count == CountLevel(risk_factors, MODERATE)
         IN IF elevated_count >= 2 THEN ELEVATED
            ELSE IF elevated_count >= 1 \/ moderate_count >= 3 THEN MODERATE
            ELSE IF moderate_count >= 1 THEN MODERATE
            ELSE LOW

\* the two line prefixes of the source are non-ASCII; ELEVATED_MARK stands for the
\* warning sign followed by two spaces, BULLET for the bullet followed by one space
ELEVATED_MARK == "(!)  "
BULLET == "* "

_generate_considerations(risk_factors) ==
    [i \in 1..Len(risk_factors) |->
        (IF risk_factors[i].risk_level = ELEVATED THEN ELEVATED_MARK ELSE BULLET)
        \o risk_factors[i].factor_name \o ": " \o risk_factors[i].description]

GeneralRecommendations == <<
    BULLET \o "Consider verified ride-hailing services for late-night travel",
    BULLET \o "Research women-only matatu options if applicable",
    BULLET \o "Always agree on fares before using bodaboda",
    BULLET \o "Use mobile payment apps to minimize cash handling",
    BULLET \o "Share your travel itinerary with a trusted contact",
    BULLET \o "Keep phone charged and emergency numbers saved",
    BULLET \o "Join local neighborhood WhatsApp groups for real-time info",
    BULLET \o "Connect with residents' association for community updates",
    BULLET \o "Explore the area during daytime to build familiarity" >>

\* _generate_recommendations with the general suggestions added only when no rule fired
_generate_recommendations_general_when_empty(risk_factors) ==
    IF risk_factors = <<>> THEN GeneralRecommendations
    ELSE [i \in 1..Len(risk_factors) |-> BULLET \o risk_factors[i].mitigation_suggestion]

_generate_recommendations(risk_factors) ==
    [i \in 1..Len(risk_factors) |-> BULLET \o risk_factors[i].mitigation_suggestion]
    \o GeneralRecommendations

\* the loop of evaluate with the TypeError of a check ending the loop
RECURSIVE FactorsFromUntilRaise(_, _, _)
FactorsFromUntilRaise(table, context, n) ==
    IF n > Len(table) THEN <<>>
    ELSE LET rule == table[n]
         IN IF CheckRaises(rule, context) THEN <<>>
            ELSE (IF RuleCheck(rule, context)
                  THEN <<[factor_name |-> rule.name,
                          description |-> rule.description,
                          risk_level |-> _determine_risk_level(rule, context),
                          mitigation_suggestion |-> rule.mitigation]>>
                  ELSE <<>>)
                 \o FactorsFromUntilRaise(table, context, n + 1)

\* the loop of evaluate over self._rules, from rule n on; a rule whose check raises
\* TypeError is skipped by the except clause
RECURSIVE FactorsFrom(_, _, _)
FactorsFrom(table, context, n) ==
    IF n > Len(table) THEN <<>>
    ELSE LET rule == table[n]
         IN (IF ~CheckRaises(rule, context) /\ RuleCheck(rule, context)
             THEN <<[factor_name |-> rule.name,
                     description |-> rule.description,
                     risk_level |-> _determine_risk_level(rule, context),
                     mitigation_suggestion |-> rule.mitigation]>>
             ELSE <<>>)
            \o FactorsFrom(table, context, n + 1)

evaluate(table, context) ==
    LET risk_factors == FactorsFrom(table, context, 1)
    IN [overall_risk_level |-> _calculate_overall_risk(risk_factors),
        risk_factors |-> risk_factors,
        key_considerations |-> _generate_considerations(risk_factors),
        recommendations |-> _generate_recommendations(risk_factors)]

\* a str value where the code expects an Enum member: it has no attribute "value",
\* and it is equal to no Enum member
Str(v) == Member("builtins", "str", v)

\* RiskProfile.to_dict
to_dict(p) ==
    [overall_risk_level |-> p.overall_risk_level.value,
     risk_factors |-> [i \in 1..Len(p.risk_factors) |->
                          [factor |-> p.risk_factors[i].factor_name,
                           description |-> p.risk_factors[i].description,
                           level |-> p.risk_factors[i].risk_level.value,
                           mitigation |-> p.risk_factors[i].mitigation_suggestion]],
     key_considerations |-> p.key_considerations,
     recommendations |-> p.recommendations]

\* sep.join(parts)
RECURSIVE Join(_, _)
Join(sep, parts) ==
    IF parts = <<>> THEN ""
    ELSE IF Len(parts) = 1 THEN parts[1]
    ELSE parts[1] \o sep \o Join(sep, Tail(parts))

\* rent is counted in thousands of KES
_generate_option_tradeoffs(option) ==
    LET commute == Get(option, "commute_minutes", 30)
        rent == Get(option, "rent_kes", 0)
        transport == Get(option, "transport_mode", Str(""))
    IN Join("; ",
            <<IF commute > 45 /\ rent < 50 THEN "Lower rent but longer commute"
              ELSE IF commute < 30 /\ rent > 80 THEN "Shorter commute but higher rent"
              ELSE "Balanced cost and commute">>
            \o (IF transport = Str("walking")
                THEN <<"Walking access - good for health, depends on distance">>
                ELSE IF transport = Str("matatu")
                THEN <<"Matatu access - affordable, schedule-dependent">>
                ELSE IF transport = Str("private")
                THEN <<"Private transport - flexible but higher cost">>
                ELSE <<>>))

\* the context evaluate builds for an option of compare_options
OptionContext(commute, transport) ==
    [commute_minutes |-> commute,
     return_time |-> EngineEnum("ReturnTime", "evening"),
     transport_mode |-> transport,
     living_arrangement |-> EngineEnum("LivingArrangement", "alone"),
     familiar_with_area |-> FALSE,
     budget_comfort |-> 50,
     has_night_activities |-> FALSE,
     risk_tolerance |-> ModelsEnum("RiskTolerance", "medium")]

\* the loop of compare_options from option n on, results holding the entries made so
\* far; transport.value raises AttributeError when transport is a str
RECURSIVE CompareFrom(_, _, _, _)
CompareFrom(table, options, n, results) ==
    IF n > Len(options) THEN [raised |-> None, results |-> results]
    ELSE LET option == options[n]
             commute == Get(option, "commute_minutes", 30)
             transport == Get(option, "transport_mode", EngineEnum("TransportMode", "matatu"))
             option_profile == evaluate(table, OptionContext(commute, transport))
         IN IF transport.class = "str"
            THEN [raised |-> "AttributeError", results |-> None]
            ELSE CompareFrom(table, options, n + 1,
                     Append(results,
                            [name |-> Get(option, "name", "Unknown"),
                             commute_minutes |-> commute,
                             transport_mode |-> transport.value,
                             risk_evaluation |-> to_dict(option_profile),
                             trade_offs |-> _generate_option_tradeoffs(option)]))

compare_options(table, options) == CompareFrom(table, options, 1, <<>>)

(***************************************************************************)
(* Inputs of evaluate                                                      *)
(***************************************************************************)
CommuteMinutes == {0, 30, 45, 46, 60, 61, 90, 91, MaxCommute}

ReturnTimes == {EngineEnum("ReturnTime", v) : v \in {"daytime", "evening", "night"}}
               \cup {ModelsEnum("ReturnTime", "night")}

TransportModes == {EngineEnum("TransportMode", v) :
                      v \in {"walking", "bodaboda", "matatu", "private", "bus"}}
                  \cup {ModelsEnum("TransportMode", "walking")}

LivingArrangements == {EngineEnum("LivingArrangement", v) : v \in {"alone", "shared", "family"}}
                      \cup {ModelsEnum("LivingArrangement", "alone")}

BudgetComforts == {50, 70, 100}

RiskTolerances == {ModelsEnum("RiskTolerance", v) : v \in {"low", "medium"}}

Contexts == [commute_minutes : CommuteMinutes, return_time : ReturnTimes,
             transport_mode : TransportModes, living_arrangement : LivingArrangements,
             familiar_with_area : BOOLEAN, budget_comfort : BudgetComforts,
             has_night_activities : BOOLEAN, risk_tolerance : RiskTolerances]

(***************************************************************************)
(* Inputs of the analyzer                                                  *)
(***************************************************************************)
OptionA == [name |-> "A", rent_kes |-> 65, commute_minutes |-> 25,
            transport_options |-> <<"matatu", "bus", "private">>,
            amenities |-> <<"market", "hospital", "schools", "shopping">>]

OptionB == [name |-> "B", rent_kes |-> 35, commute_minutes |-> 45,
            transport_options |-> <<"matatu", "bodaboda">>,
            amenities |-> <<"market", "shops">>]

\* scored like A under every budget and target, with another name
OptionC == [OptionA EXCEPT !.name = "C"]

OptionW == [name |-> "W", rent_kes |-> 80, commute_minutes |-> 20,
            transport_options |-> <<"Matatu", "bus", "private">>,
            amenities |-> <<"market", "hospital", "schools", "shopping", "mall">>]

\* an option with missing fields
OptionD == [name |-> "D", commute_minutes |-> 95]

OptionPool == {OptionA, OptionB, OptionC, OptionW, OptionD}

RECURSIVE ListsUpTo(_, _)
ListsUpTo(S, n) ==
    IF n = 0 THEN {<<>>}
    ELSE LET shorter == ListsUpTo(S, n - 1)
         IN shorter \cup {Append(l, x) : l \in {m \in shorter : Len(m) = n - 1}, x \in S}

OptionLists == ListsUpTo(OptionPool, MaxOptions)

Budgets == {70, 40, 0}

Targets == {30, 20}

(***************************************************************************)
(* The analyzer after construction, and one call on it.  No method assigns *)
(* self.weights or self.priorities and a call reads nothing an earlier     *)
(* call wrote, so a behaviour is the construction followed by one call.    *)
(***************************************************************************)
Init ==
    /\ weights = DEFAULT_WEIGHTS
    /\ priorities = DEFAULT_PRIORITIES
    /\ call = NoCall
    /\ comparison = None
    /\ scored = None
    /\ guardrail = None
    /\ reframed = None
    /\ rules = _initialize_rules
    /\ profile = None
    /\ cleaned = None
    /\ threads = <<>>
    /\ conversation_history = <<>>
    /\ sent = <<>>
    /\ chat = [pc |-> "input", turns |-> 0, user_input |-> None, steps |-> <<>>,
               has_all_details |-> FALSE, result |-> [status |-> "none"]]

AnalyzeOptions(options, budget_max, workplace_minutes) ==
    /\ call.op = "none"
    /\ call' = [op |-> "analyze_options", options |-> options, budget_max |-> budget_max,
                workplace_minutes |-> workplace_minutes]
    /\ comparison' = analyze_options(weights, options, budget_max, workplace_minutes)
    /\ UNCHANGED <<chatVars, weights, priorities, scored, guardrail, reframed, rules, profile, cleaned, threads>>

NextAnalyze == \E options \in OptionLists, b \in Budgets, t \in Targets : AnalyzeOptions(options, b, t)

SpecAnalyze == Init /\ [][NextAnalyze]_vars

(***************************************************************************)
(* Construction.  An Optional argument is a sequence: <<>> is None, <<x>>  *)
(* is the value x.  Before __init__ has run, self.weights and              *)
(* self.priorities are not bound.                                          *)
(***************************************************************************)
\* TradeOffAnalyzer.__init__: `weights or DEFAULT_WEIGHTS.copy()` takes the default for
\* None and for the empty mapping, and every other mapping as it is
__init__(weights_arg, user_priorities) ==
    [weights |-> IF weights_arg = <<>> \/ DOMAIN weights_arg[1] = {}
                 THEN DEFAULT_WEIGHTS ELSE weights_arg[1],
     priorities |-> IF user_priorities = <<>> \/ user_priorities[1] = <<>>
                    THEN DEFAULT_PRIORITIES ELSE user_priorities[1]]

Unconstructed == [op |-> "unconstructed"]

WeightArguments ==
    {<<>>, <<[c \in {} |-> 0]>>, <<DEFAULT_WEIGHTS>>,
     <<[cost |-> 40, commute |-> 25, convenience |-> 20, transport |-> 15, amenities |-> 10]>>,
     <<[cost |-> 50, commute |-> 50, convenience |-> 50, transport |-> 50, amenities |-> 50]>>,
     <<[cost |-> 30, commute |-> 25, convenience |-> 0, transport |-> 15, amenities |-> 10]>>,
     <<[cost |-> 0, commute |-> 0, convenience |-> 0, transport |-> 0, amenities |-> 0]>>}

PriorityArguments == {<<>>, <<<<"commute", "cost">>>>}

InitConstruct ==
    /\ weights = None
    /\ priorities = None
    /\ call = Unconstructed
    /\ comparison = None
    /\ scored = None
    /\ guardrail = None
    /\ reframed = None
    /\ rules = _initialize_rules
    /\ profile = None
    /\ cleaned = None
    /\ threads = <<>>
    /\ conversation_history = <<>>
    /\ sent = <<>>
    /\ chat = [pc |-> "input", turns |-> 0, user_input |-> None, steps |-> <<>>,
               has_all_details |-> FALSE, result |-> [status |-> "none"]]

Construct(weights_arg, user_priorities) ==
    /\ call.op = "unconstructed"
    /\ call' = NoCall
    /\ weights' = __init__(weights_arg, user_priorities).weights
    /\ priorities' = __init__(weights_arg, user_priorities).priorities
    /\ UNCHANGED <<chatVars, comparison, scored, guardrail, reframed, rules, profile, cleaned, threads>>

ConstructedOptionLists == {<<>>, <<OptionB>>, <<OptionA, OptionB>>, <<OptionD, OptionW>>}

NextConstruct ==
    \/ \E weights_arg \in WeightArguments, user_priorities \in PriorityArguments :
          Construct(weights_arg, user_priorities)
    \/ \E options \in ConstructedOptionLists, b \in Budgets, t \in Targets :
          AnalyzeOptions(options, b, t)

SpecConstruct == InitConstruct /\ [][NextConstruct]_vars

(***************************************************************************)
(* Inputs of _score_option: every combination of the field values below,   *)
(* and options with fields missing                                         *)
(***************************************************************************)
RentValues == {-10, 0, 35, 65, 71, 5000}

CommuteValues == {-5, 25, 38, 61, 91, 10000}

ScoreBudgets == {-70, 0, 70, 100}

ScoreTargets == {-10, 0, 30}

TransportLists == {<<>>, <<"walking">>, <<"Matatu", "BUS">>, <<"matatu", "bus", "private">>,
                   <<"matatu", "bodaboda", "bus", "walking", "private">>}

AmenityNames == <<"market", "hospital", "schools", "shopping", "mall", "Clinic", "gym", "park">>

AmenityName(i) == AmenityNames[((i - 1) % Len(AmenityNames)) + 1]

\* the amenities number first..last of the catalogue
AmenityWindow(first, last) == [i \in 1..(last - first + 1) |-> AmenityName(first + i - 1)]

AmenityLists == {AmenityWindow(1, n) : n \in 0..MaxAmenities} \cup {AmenityWindow(3, 4), AmenityWindow(6, 7)}

FullOptions == {[name |-> "X", rent_kes |-> r, commute_minutes |-> c, transport_options |-> t,
                 amenities |-> a] :
                    r \in RentValues, c \in CommuteValues, t \in TransportLists, a \in AmenityLists}

PartialOptions == {OptionD, [rent_kes |-> 35], [name |-> "E", amenities |-> <<"supermarket">>],
                   [name |-> "F", transport_options |-> <<"walking">>, rent_kes |-> 90]}

ScoreOptions == FullOptions \cup PartialOptions

ScoreOption(option, budget_max, target_commute) ==
    /\ call.op = "none"
    /\ call' = [op |-> "_score_option", option |-> option, budget_max |-> budget_max,
                target_commute |-> target_commute]
    /\ scored' = _score_option(weights, option, budget_max, target_commute)
    /\ UNCHANGED <<chatVars, weights, priorities, comparison, guardrail, reframed, rules, profile, cleaned, threads>>

NextScore == \E option \in ScoreOptions, b \in ScoreBudgets, t \in ScoreTargets : ScoreOption(option, b, t)

SpecScore == Init /\ [][NextScore]_vars

(***************************************************************************)
(* Safety guardrails                                                       *)
(***************************************************************************)
STANDARD == "standard"
BIASED == "biased"
STEREOTYPICAL == "stereotypical"
DANGEROUS_AREA_QUERY == "dangerous_area_query"
SAFETY_RANKING == "safety_ranking"
CRIME_PREDICTION == "crime_prediction"

AreaWords == <<"area", "neighborhood", "place">>

STEREOTYPE_PATTERNS == <<
    <<WB, Alt(<< <<L("dangerous")>>, <<L("unsafe")>>, <<L("risk"), Cls("ey")>>,
                 <<L("crime-ridden")>>, <<L("ghetto")>>, <<L("slum")>> >>), WB>>,
    <<WB, Lits(<<"avoid", "stay away from", "never go to">>), WB, ANY, WB, Lits(AreaWords), WB>>,
    <<WB, Lits(<<"people from", "residents of">>), WB, ANY, WB, Lits(<<"are", "is", "can be">>), WB,
      ANY, WB, Lits(<<"dangerous", "poor", "criminal">>), WB>>,
    <<WB, Lits(<<"avoid", "don't live in", "never move to">>), WS,
      Lits(<<"kibera", "mathare", "kiambiu", " Dandora", "estcourt", "lavington">>), WB>>,
    <<WB, Lits(<<"which", "safe", "dangerous", "unsafe", "risky">>), WB, ANY, WB, Lits(AreaWords), WB>>,
    <<WB, Lits(<<"best", "worst", "most safe", "most dangerous", "top", "worst">>), WB, ANY, WB,
      Lits(<<"area", "neighborhood">>), WB>>,
    <<WB, Lits(<<"crime rate", "most dangerous", "safest">>), WB>>,
    <<WB, Lits(<<"is safe", "is dangerous", "will be", "guarantee", "certain">>), WB>>,
    <<WB, Alt(<< <<L("will "), Lits(<<"happen", "be", "get">>)>>, <<L("going to")>>,
                 <<L("likely to")>> >>), WB, ANY, WB,
      Lits(<<"robbed", "attacked", "harmed", "crime">>), WB>> >>

\* QUERY_TYPE_PATTERNS.items(), in the insertion order of the dict
QUERY_TYPE_PATTERNS == <<
    [query_type |-> DANGEROUS_AREA_QUERY,
     patterns |-> <<
        <<WB, Alt(<<Gap("which", "dangerous"), Gap("which", "unsafe"), Gap("areas", "dangerous"),
                    Gap("areas", "unsafe"), <<L("dangerous areas")>>, <<L("unsafe areas")>> >>), WB>>,
        <<WB, Lits(<<"most dangerous", "safest", "highest crime">>), WB>> >>],
    [query_type |-> SAFETY_RANKING,
     patterns |-> <<
        <<WB, Lits(<<"rank", "rating", "score">>), WB, ANY, WB,
          Lits(<<"area", "neighborhood", "safety", "security">>), WB>>,
        <<WB, Alt(<<Gap("safe", "rating"), Gap("security", "rating"), Gap("compare", "safety")>>),
          WB>> >>],
    [query_type |-> CRIME_PREDICTION,
     patterns |-> <<
        <<WB, Alt(<<Gap("will", "happen"), Gap("likely", "crime"), Gap("probability", "robbed"),
                    Gap("future", "crime")>>), WB>>,
        <<WB, Lits(<<"predict", "forecast">>), WB, ANY, WB, Lits(<<"crime", "robbery", "attack">>),
          WB>> >>],
    [query_type |-> STEREOTYPICAL,
     patterns |-> <<
        <<WB, Lits(<<"kibera", "mathare", "kiambiu">>), WB, ANY, WB,
          Lits(<<"dangerous", "unsafe", "bad">>), WB>>,
        <<WB, Alt(<<Gap("poor", "area"), Gap("rich", "area"), Gap("rich", "neighborhood")>>), WB,
          ANY, WB, Lits(<<"safe", "dangerous">>), WB>> >>] >>

STEREOTYPED_AREAS == <<"kibera", "mathare", "kiambiu", "dandora", "kangundo",
                       "huruma", "bondeni", "laini saba", "githurai", "muguru">>

dangerous_words == <<"dangerous", "unsafe", "bad", "avoid", "never">>

\* some pattern of the list matches the text
AnyPatternMatches(patterns, text) == \E n \in 1..Len(patterns) : Search(patterns[n], text)

\* the loop over the groups taken from the last group to the first
RECURSIVE DetectFromLast(_, _)
DetectFromLast(input_lower, n) ==
    IF n > Len(QUERY_TYPE_PATTERNS)
    THEN IF AnyPatternMatches(STEREOTYPE_PATTERNS, input_lower) THEN STEREOTYPICAL ELSE STANDARD
    ELSE LET group == QUERY_TYPE_PATTERNS[Len(QUERY_TYPE_PATTERNS) + 1 - n]
         IN IF AnyPatternMatches(group.patterns, input_lower) THEN group.query_type
            ELSE DetectFromLast(input_lower, n + 1)

\* the loop over QUERY_TYPE_PATTERNS from group n on, then the stereotype patterns
RECURSIVE DetectFrom(_, _)
DetectFrom(input_lower, n) ==
    IF n > Len(QUERY_TYPE_PATTERNS)
    THEN IF AnyPatternMatches(STEREOTYPE_PATTERNS, input_lower) THEN STEREOTYPICAL ELSE STANDARD
    ELSE IF AnyPatternMatches(QUERY_TYPE_PATTERNS[n].patterns, input_lower)
         THEN QUERY_TYPE_PATTERNS[n].query_type
         ELSE DetectFrom(input_lower, n + 1)

detect_query_type(user_input) == DetectFrom(Lower(user_input), 1)

\* contains_stereotype without the inner loop over the negative words
contains_stereotype_any_area(user_input) ==
    LET input_lower == Lower(user_input)
    IN \/ AnyPatternMatches(STEREOTYPE_PATTERNS, input_lower)
       \/ \E a \in 1..Len(STEREOTYPED_AREAS) : Contains(input_lower, STEREOTYPED_AREAS[a])

\* the first element of contains_stereotype's result; the second (the matched text) is
\* passed to generate_warning_message, which does not read it
contains_stereotype(user_input) ==
    LET input_lower == Lower(user_input)
    IN \/ AnyPatternMatches(STEREOTYPE_PATTERNS, input_lower)
       \/ \E a \in 1..Len(STEREOTYPED_AREAS) :
             /\ Contains(input_lower, STEREOTYPED_AREAS[a])
             /\ \E w \in 1..Len(dangerous_words) : Contains(input_lower, dangerous_words[w])

extract_stereotyped_area(user_input) ==
    LET input_lower == Lower(user_input)
        found == {a \in 1..Len(STEREOTYPED_AREAS) : Contains(input_lower, STEREOTYPED_AREAS[a])}
    IN IF found = {} THEN None
       ELSE STEREOTYPED_AREAS[CHOOSE a \in found : \A b \in found : a <= b]

DangerousSentence == ". I'm interested in understanding trade-offs between safety, budget, and commute."

PredictionLeadIn == "I can help you understand "

StereotypeSentence == ". I'd like to understand the trade-offs between different housing options."

reframe_query(user_input, query_type) ==
    CASE query_type = DANGEROUS_AREA_QUERY ->
            SubIgnoreCase(<<Alt(<<Gap("which", "dangerous"), Gap("which", "unsafe"),
                                  Gap("areas", "dangerous"), Gap("areas", "unsafe")>>)>>,
                          "what factors should I consider for", user_input)
            \o DangerousSentence
      [] query_type = SAFETY_RANKING ->
            SubIgnoreCase(<<Alt(<<Gap("which", "area"), Gap("which", "neighborhood")>>)>>,
                          "what should I consider when choosing",
                          SubIgnoreCase(<<Alt(<< <<L("safest")>>, <<L("most safe")>>,
                                                 <<L("most dangerous")>>, Gap("best", "safety"),
                                                 Gap("worst", "safety")>>)>>,
                                        "with various safety considerations", user_input))
      [] query_type = CRIME_PREDICTION ->
            PredictionLeadIn
            \o Lower(SubIgnoreCase(<<Alt(<<Gap("will", "happen"), <<L("likely")>>,
                                           <<L("crime probability")>>, <<L("predict")>> >>)>>,
                                   "what situational factors affect", user_input))
      [] query_type = STEREOTYPICAL ->
            LET area == extract_stereotyped_area(user_input)
            IN (IF area # None
                THEN SubIgnoreCase(<<WB, Alt(<<Gap(area, "dangerous"), Gap(area, "unsafe"),
                                               Gap(area, "bad"), <<L("avoid " \o area)>>,
                                               <<L("never " \o area)>> >>), WB>>,
                                   "I have some concerns about " \o Title(area)
                                   \o ". What are the key factors I should consider?",
                                   user_input)
                ELSE user_input)
               \o StereotypeSentence
      [] OTHER -> user_input

generate_advisory_disclaimer(query_type) ==
    CASE query_type = DANGEROUS_AREA_QUERY ->
            "I can help you evaluate housing options based on your specific needs, "
            \o "budget, and commute considerations. Instead of labeling areas, I focus on "
            \o "objective factors like lighting, transport availability, and community initiatives. "
            \o "What factors matter most to you?"
      [] query_type = SAFETY_RANKING ->
            "I don't rank neighborhoods by safety - these labels can be misleading and "
            \o "perpetuate stereotypes. Instead, I can help you understand contextual factors "
            \o "like street lighting, transport hours, and strategies that residents use. "
            \o "What specific concerns do you have?"
      [] query_type = CRIME_PREDICTION ->
            "I don't make predictions about safety outcomes. I can help you understand "
            \o "situational factors you can influence - like commute timing, transport mode, "
            \o "and community resources. Would you like to explore these instead?"
      [] query_type = STEREOTYPICAL ->
            "I aim to provide balanced, evidence-based information without relying on "
            \o "stereotypes. Every area has diverse communities with varying experiences. "
            \o "I can help you understand factors to consider and strategies that work for "
            \o "residents in different areas."
      [] query_type = BIASED ->
            "Let me help you focus on objective factors like budget, commute, and amenities "
            \o "rather than generalizations. I can also share strategies that residents in "
            \o "various areas use to navigate their environments safely. What criteria matter most?"
      [] OTHER -> None

generate_warning_message(area) ==
    IF area # None
    THEN "I noticed you mentioned concerns about " \o Title(area) \o ". "
         \o "Rather than relying on generalizations, I can help you understand "
         \o "specific factors like commute, budget, and amenities. "
         \o "Would you like to discuss your priorities?"
    ELSE "I noticed your query includes some assumptions about safety. "
         \o "I aim to provide balanced, advisory information rather than perpetuating stereotypes. "
         \o "Let me help you focus on specific factors relevant to your situation."

\* validate_query reframing by the query type alone: `if query_type != STANDARD`
validate_query_by_type(user_input) ==
    LET query_type == detect_query_type(user_input)
        has_stereotype == contains_stereotype(user_input)
        area == IF has_stereotype THEN extract_stereotyped_area(user_input) ELSE None
        is_safe == query_type = STANDARD /\ ~has_stereotype
    IN [is_safe |-> is_safe,
        query_type |-> query_type,
        reframed_query |-> IF query_type # STANDARD THEN reframe_query(user_input, query_type)
                           ELSE None,
        warning_message |-> IF has_stereotype THEN generate_warning_message(area) ELSE None,
        advisory_disclaimer |-> generate_advisory_disclaimer(query_type)]

validate_query(user_input) ==
    LET query_type == detect_query_type(user_input)
        has_stereotype == contains_stereotype(user_input)
        area == IF has_stereotype THEN extract_stereotyped_area(user_input) ELSE None
        is_safe == query_type = STANDARD /\ ~has_stereotype
    IN [is_safe |-> is_safe,
        query_type |-> query_type,
        reframed_query |-> IF ~is_safe THEN reframe_query(user_input, query_type)
                           ELSE None,
        warning_message |-> IF has_stereotype THEN generate_warning_message(area) ELSE None,
        advisory_disclaimer |-> generate_advisory_disclaimer(query_type)]

\* the (pattern, replacement) pairs of postprocess_response, in order
replacements == <<
    [pattern |-> <<WB, Lits(<<"this area is", "these areas are", "that area is">>), WB>>,
     replacement |-> "factors to consider in"],
    [pattern |-> <<WB, Lits(<<"is safe", "is dangerous", "is risky", "is unsafe">>), WB>>,
     replacement |-> "has various characteristics to consider"],
    [pattern |-> <<WB, Lits(<<"guarantee", "certain", "definitely", "will be">>), WB>>,
     replacement |-> "may be considered"],
    [pattern |-> <<WB, Lits(<<"never", "always">>), WB>>,
     replacement |-> "often"],
    [pattern |-> <<WB, Lits(<<"most dangerous", "safest", "highest crime">>), WB>>,
     replacement |-> "various considerations"] >>

\* the loop of postprocess_response over the replacements, from pair n on
RECURSIVE ReplaceFrom(_, _)
ReplaceFrom(text, n) ==
    IF n > Len(replacements) THEN text
    ELSE ReplaceFrom(SubIgnoreCase(replacements[n].pattern, replacements[n].replacement, text),
                     n + 1)

AdvisoryFooter ==
    "\n\n*This is advisory information. Always visit areas personally and consult local sources for the most current information.*"

postprocess_response(response) ==
    LET text == ReplaceFrom(response, 1)
    IN IF ~Contains(text, "Based on your specific needs") /\ Contains(Lower(text), "considerations")
       THEN text \o AdvisoryFooter
       ELSE text

(***************************************************************************)
(* Inputs of the guardrail: the queries quoted in the specification and in *)
(* the module's own example, and every text of up to MaxPhrases phrases    *)
(***************************************************************************)
KiberaQuery == "Is Kibera safe to live in?"

BedroomQuery == "I want a 2-bedroom near the CBD for 40000 KES"

QuotedQueries == {KiberaQuery, BedroomQuery, "",
                  "I prefer safe areas and I have been told Kibera is a very dangerous place.",
                  "Which areas in Nairobi are most dangerous?",
                  "What is the safest neighborhood in Nairobi?",
                  "I want to live in a safe area near Prestige Plaza with budget of 50000."}

Phrases == {"Which areas", "are dangerous", "safest", "rank by safety", "predict crime",
            "will it happen", "Kibera", "is unsafe", "badly", "slum", "in Nairobi",
            "avoid Laini Saba", "is safe", "a house", "rich neighborhood"}

RECURSIVE TextsUpTo(_)
TextsUpTo(n) ==
    IF n = 0 THEN {""}
    ELSE LET shorter == TextsUpTo(n - 1)
         IN shorter \cup Phrases \cup {t \o " " \o ph : t \in shorter \ {""}, ph \in Phrases}

Texts == QuotedQueries \cup TextsUpTo(MaxPhrases)

NonStandardTypes == {BIASED, STEREOTYPICAL, DANGEROUS_AREA_QUERY, SAFETY_RANKING, CRIME_PREDICTION}

ValidateQuery(text) ==
    /\ call.op = "none"
    /\ call' = [op |-> "validate_query", user_input |-> text]
    /\ guardrail' = validate_query(text)
    /\ UNCHANGED <<chatVars, weights, priorities, comparison, scored, reframed, rules, profile, cleaned, threads>>

ReframeQuery(text, query_type) ==
    /\ call.op = "none"
    /\ call' = [op |-> "reframe_query", user_input |-> text, query_type |-> query_type]
    /\ reframed' = reframe_query(text, query_type)
    /\ UNCHANGED <<chatVars, weights, priorities, comparison, scored, guardrail, rules, profile, cleaned, threads>>

\* reframe_query applied to its own output, with the same query type
ReframeAgain ==
    /\ call.op = "reframe_query"
    /\ call' = [call EXCEPT !.op = "reframe_again"]
    /\ reframed' = reframe_query(reframed, call.query_type)
    /\ UNCHANGED <<chatVars, weights, priorities, comparison, scored, guardrail, rules, profile, cleaned, threads>>

NextGuardrail ==
    \/ \E text \in Texts : ValidateQuery(text)
    \/ \E text \in Texts, query_type \in NonStandardTypes : ReframeQuery(text, query_type)
    \/ ReframeAgain

SpecGuardrail == Init /\ [][NextGuardrail]_vars

(***************************************************************************)
(* Inputs of postprocess_response: every response of up to MaxSentences    *)
(* sentences                                                               *)
(***************************************************************************)
Sentences == {"Ruaka has good transport.", "Key considerations: rent and commute.",
              "Based on your specific needs, Ruaka fits.", "This area is safe.",
              "Kilimani is unsafe.", "It is the safest.", "Always verify the rent.",
              "You will definitely like it."}

RECURSIVE ResponsesUpTo(_)
ResponsesUpTo(n) ==
    IF n = 0 THEN {""}
    ELSE LET shorter == ResponsesUpTo(n - 1)
         IN shorter \cup Sentences \cup {r \o " " \o s : r \in shorter \ {""}, s \in Sentences}

Responses == ResponsesUpTo(MaxSentences)

PostprocessResponse(response) ==
    /\ call.op = "none"
    /\ call' = [op |-> "postprocess_response", response |-> response]
    /\ cleaned' = postprocess_response(response)
    /\ UNCHANGED <<chatVars, weights, priorities, comparison, scored, guardrail, reframed, rules, profile,
                   threads>>

\* postprocess_response applied to its own output
PostprocessAgain ==
    /\ call.op = "postprocess_response"
    /\ call' = [call EXCEPT !.op = "postprocess_again"]
    /\ cleaned' = postprocess_response(cleaned)
    /\ UNCHANGED <<chatVars, weights, priorities, comparison, scored, guardrail, reframed, rules, profile,
                   threads>>

NextPostprocess ==
    \/ \E response \in Responses : PostprocessResponse(response)
    \/ PostprocessAgain

SpecPostprocess == Init /\ [][NextPostprocess]_vars

(***************************************************************************)
(* Request paths.  A request enters through run_housing_agent of           *)
(* src/core/agent_orchestrator.py (api_server.py, simple_server.py and the *)
(* interactive chat), through process_housing_request of the backend       *)
(* service (backend/app/api/routes.py), or through run_housing_agent of    *)
(* gemini_main.py.  Each path triages the request: requirement extraction  *)
(* hands a text for the current turn to the generative model.              *)
(* call.validated tells that validate_query has run on the request,        *)
(* call.model_input is the text of the current turn handed to the model.   *)
(***************************************************************************)
RequestTexts == QuotedQueries \cup Phrases

RequestPaths == {"run_housing_agent", "process_housing_request", "gemini_main.run_housing_agent"}

\* the entry of a path, up to its call of triage
Request(path, text) ==
    /\ call.op = "none"
    /\ call' = [op |-> path, user_input |-> text, pc |-> "triage", validated |-> FALSE,
                model_input |-> None]
    /\ UNCHANGED <<chatVars, weights, priorities, comparison, scored, guardrail, reframed, rules, profile, cleaned, threads>>

\* triage_user_input of src/core/triage.py, first statement: the guardrail
TriageValidate ==
    /\ call.op = "run_housing_agent"
    /\ call.pc = "triage"
    /\ guardrail' = validate_query(call.user_input)
    /\ call' = [call EXCEPT !.pc = "extract", !.validated = TRUE]
    /\ UNCHANGED <<chatVars, weights, priorities, comparison, scored, reframed, rules, profile, cleaned, threads>>

\* triage_user_input, the rest: processed_input = reframed_query or user_input goes
\* into the contents of generate_content
TriageExtract ==
    /\ call.op = "run_housing_agent"
    /\ call.pc = "extract"
    /\ call' = [call EXCEPT !.pc = "extracted",
                            !.model_input = IF guardrail.reframed_query # None
                                               /\ guardrail.reframed_query # ""
                                            THEN guardrail.reframed_query
                                            ELSE call.user_input]
    /\ UNCHANGED <<chatVars, weights, priorities, comparison, scored, guardrail, reframed, rules, profile, cleaned, threads>>

\* HousingAdvisoryService.triage_requirements: user_input goes into the contents
TriageRequirements ==
    /\ call.op = "process_housing_request"
    /\ call.pc = "triage"
    /\ call' = [call EXCEPT !.pc = "extracted", !.model_input = call.user_input]
    /\ UNCHANGED <<chatVars, weights, priorities, comparison, scored, guardrail, reframed, rules, profile, cleaned, threads>>

\* triage_user_input of gemini_main.py: user_input goes into the contents
GeminiMainTriage ==
    /\ call.op = "gemini_main.run_housing_agent"
    /\ call.pc = "triage"
    /\ call' = [call EXCEPT !.pc = "extracted", !.model_input = call.user_input]
    /\ UNCHANGED <<chatVars, weights, priorities, comparison, scored, guardrail, reframed, rules, profile, cleaned, threads>>

NextRequest ==
    \/ \E path \in RequestPaths, text \in RequestTexts : Request(path, text)
    \/ TriageValidate
    \/ TriageExtract
    \/ TriageRequirements
    \/ GeminiMainTriage

SpecRequest == Init /\ [][NextRequest]_vars

Evaluate(context) ==
    /\ call.op = "none"
    /\ call' = [op |-> "evaluate", context |-> context]
    /\ profile' = evaluate(rules, context)
    /\ UNCHANGED <<chatVars, weights, priorities, comparison, scored, guardrail, reframed, rules, cleaned, threads>>

(***************************************************************************)
(* Inputs of _calculate_overall_risk: every list of up to MaxFactors       *)
(* RiskFactor records, of any levels                                       *)
(***************************************************************************)
RiskLevels == {LOW, MODERATE, ELEVATED}

FactorOfLevel(level) ==
    [factor_name |-> "Factor", description |-> "description", risk_level |-> level,
     mitigation_suggestion |-> "mitigation"]

FactorLists ==
    UNION {[1..n -> {FactorOfLevel(level) : level \in RiskLevels}] : n \in 0..MaxFactors}

CalculateOverallRisk(risk_factors) ==
    /\ call.op = "none"
    /\ call' = [op |-> "_calculate_overall_risk", risk_factors |-> risk_factors]
    /\ profile' = _calculate_overall_risk(risk_factors)
    /\ UNCHANGED <<chatVars, weights, priorities, comparison, scored, guardrail, reframed, rules, cleaned, threads>>

NextRisk ==
    \/ \E context \in Contexts : Evaluate(context)
    \/ \E risk_factors \in FactorLists : CalculateOverallRisk(risk_factors)

SpecRisk == Init /\ [][NextRisk]_vars

(***************************************************************************)
(* Inputs of evaluate with None passed for some of its parameters          *)
(***************************************************************************)
Restrict(ctx, keys) == [k \in DOMAIN ctx \ keys |-> ctx[k]]

NoneKeys == {"commute_minutes", "budget_comfort", "return_time", "familiar_with_area"}

FullContexts == [commute_minutes : {30, 91},
                 return_time : {EngineEnum("ReturnTime", v) : v \in {"evening", "night"}},
                 transport_mode : {EngineEnum("TransportMode", v) : v \in {"walking", "matatu"}},
                 living_arrangement : {EngineEnum("LivingArrangement", v) : v \in {"alone", "family"}},
                 familiar_with_area : BOOLEAN, budget_comfort : {50, 100},
                 has_night_activities : {FALSE},
                 risk_tolerance : {ModelsEnum("RiskTolerance", "medium")}]

NoneContexts == {Restrict(ctx, keys) : ctx \in FullContexts, keys \in SUBSET NoneKeys}

NextRiskNone == \E context \in NoneContexts : Evaluate(context)

SpecRiskNone == Init /\ [][NextRiskNone]_vars

(***************************************************************************)
(* Inputs of compare_options: options whose transport_mode is a str, a     *)
(* member of the engine's TransportMode, or missing                        *)
(***************************************************************************)
ComparedModes == {"walking", "matatu", "private"}

ComparedTransports == {Str(v) : v \in ComparedModes}
                      \cup {EngineEnum("TransportMode", v) : v \in ComparedModes}

ComparedOptions ==
    [name : {"A"}, commute_minutes : {25, 50}, rent_kes : {35, 90},
     transport_mode : ComparedTransports]
    \cup [name : {"A"}, commute_minutes : {25, 50}, rent_kes : {35, 90}]

ComparedLists == UNION {[1..n -> ComparedOptions] : n \in 0..MaxCompared}

CompareOptions(options) ==
    /\ call.op = "none"
    /\ call' = [op |-> "compare_options", options |-> options]
    /\ profile' = compare_options(rules, options)
    /\ UNCHANGED <<chatVars, weights, priorities, comparison, scored, guardrail, reframed, rules, cleaned, threads>>

NextCompare == \E options \in ComparedLists : CompareOptions(options)

SpecCompare == Init /\ [][NextCompare]_vars

(***************************************************************************)
(* interactive_chat and run_housing_agent of src/core/agent_orchestrator.py *)
(*                                                                         *)
(* chat.pc is the position in the loop of interactive_chat and, inside     *)
(* run_housing_agent, the step about to run.  Every generate_content call  *)
(* appends its contents to sent.  What the generative model answers is an  *)
(* input: has_all_details of the parsed requirements, or an exception of   *)
(* the call or of the parsing of its answer.  An exception inside          *)
(* run_housing_agent is re-raised and caught by the loop, which goes on    *)
(* with the next iteration.  chat.turns counts the iterations.             *)
(***************************************************************************)
Whitespace == {" ", "\t", "\n"}

\* str.strip()
strip(s) ==
    LET inked == {i \in 1..Len(s) : SubSeq(s, i, i) \notin Whitespace}
    IN IF inked = {} THEN ""
       ELSE SubSeq(s, CHOOSE i \in inked : \A j \in inked : i <= j,
                      CHOOSE i \in inked : \A j \in inked : i >= j)

\* bool(x) of an Optional[str]
Truthy(x) == x # None /\ x # ""

QuitWords == {"quit", "exit", "bye", "goodbye"}

system_content == "You are an assistant that gathers key details for housing relocation in Kenya."

ResearchPrompt == "You are an ADVISORY housing expert."
PresentationPrompt == "You are a helpful housing assistant presenting ADVISORY information."
GatherPrompt == "You are a friendly housing assistant helping someone relocate in Kenya."

PresentationMessage == "Here are housing options with factors to consider."
FollowUpMessage == "Could you tell me your budget?"
NoMissingMessage ==
    "It seems we have all the necessary information. Is there anything else you'd like to add?"

Content(role, text) == [role |-> role, text |-> text]

\* the contents triage_user_input builds: the system text, the history, the current turn
TriageContents(history, processed_input) ==
    <<Content("user", system_content)>>
    \o [i \in 1..Len(history) |->
           Content(IF history[i].role # "assistant" THEN history[i].role ELSE "model",
                   history[i].content)]
    \o <<Content("user", processed_input)>>

\* the optional keys of response_data, present even when triage returned None
WarningsAlways(g) ==
    [warning_message |-> g.warning_message, advisory_disclaimer |-> g.advisory_disclaimer]

\* the optional keys of response_data
Warnings(g) ==
    (IF Truthy(g.warning_message) THEN [k \in {"warning_message"} |-> g.warning_message]
     ELSE [k \in {} |-> None])
    @@ (IF Truthy(g.advisory_disclaimer)
        THEN [k \in {"advisory_disclaimer"} |-> g.advisory_disclaimer]
        ELSE [k \in {} |-> None])

\* run_housing_agent has not returned
NoResult == [status |-> "none"]

ResponseData(status, message, g) == [status |-> status, message |-> message] @@ Warnings(g)

ChatLines == {"Which areas in Nairobi are most dangerous?", "Kibera is unsafe",
              "a house in Nairobi", " a house", "quit", " Bye ", "GOODBYE"}

ModelAnswers == {"raise", "complete", "incomplete"}

engineVars == <<weights, priorities, call, comparison, scored, reframed, rules, profile, cleaned,
                threads>>

\* input("You: ").strip() and the test for the words that end the chat
ReadInput(line) ==
    /\ chat.pc = "input"
    /\ chat.turns < MaxTurns
    /\ LET user_input == strip(line)
       IN chat' = [chat EXCEPT !.turns = @ + 1, !.user_input = user_input, !.steps = <<>>,
                               !.result = NoResult,
                               !.pc = IF Lower(user_input) \in QuitWords THEN "ended"
                                      ELSE "triage"]
    /\ UNCHANGED <<engineVars, guardrail, conversation_history, sent>>

\* KeyboardInterrupt while waiting for input: the loop ends
KeyboardInterrupt ==
    /\ chat.pc \in {"input", "save"}
    /\ chat' = [chat EXCEPT !.pc = "ended"]
    /\ UNCHANGED <<engineVars, guardrail, conversation_history, sent>>

\* run_housing_agent, step 1: triage_user_input
Triage(answer) ==
    /\ chat.pc = "triage"
    /\ guardrail' = validate_query(chat.user_input)
    /\ LET processed_input == IF Truthy(guardrail'.reframed_query)
                              THEN guardrail'.reframed_query ELSE chat.user_input
       IN sent' = Append(sent, TriageContents(conversation_history, processed_input))
    /\ chat' = [chat EXCEPT !.steps = Append(@, "triage"),
                            !.has_all_details = (answer = "complete"),
                            !.pc = CASE answer = "raise" -> "input"
                                     [] answer = "complete" -> "research"
                                     [] answer = "incomplete" -> "gather"]
    /\ UNCHANGED <<engineVars, conversation_history>>

\* run_housing_agent, step 2 of the complete branch: research_neighborhoods
Research(raises) ==
    /\ chat.pc = "research"
    /\ sent' = Append(sent, <<Content("user", ResearchPrompt)>>)
    /\ chat' = [chat EXCEPT !.steps = Append(@, "research"),
                            !.pc = IF raises THEN "input" ELSE "presentation"]
    /\ UNCHANGED <<engineVars, guardrail, conversation_history>>

\* run_housing_agent, step 3 of the complete branch: present_recommendations and the
\* response_data of the branch
Presentation(raises) ==
    /\ chat.pc = "presentation"
    /\ sent' = Append(sent, <<Content("user", PresentationPrompt)>>)
    /\ chat' = [chat EXCEPT !.steps = Append(@, "presentation"),
                            !.pc = IF raises THEN "input" ELSE "record",
                            !.result = IF raises THEN NoResult
                                       ELSE ResponseData("success", PresentationMessage,
                                                         guardrail)]
    /\ UNCHANGED <<engineVars, guardrail, conversation_history>>

\* run_housing_agent, the other branch: gather_missing_details, which asks the model
\* only when an item is missing, and the response_data of the branch
GatherMissingDetails(missing, raises) ==
    /\ chat.pc = "gather"
    /\ missing \/ ~raises
    /\ sent' = IF missing THEN Append(sent, <<Content("user", GatherPrompt)>>) ELSE sent
    /\ chat' = [chat EXCEPT !.steps = Append(@, "gather"),
                            !.pc = IF raises THEN "input" ELSE "record",
                            !.result = IF raises THEN NoResult
                                       ELSE ResponseData("needs_more_info",
                                                         IF missing THEN FollowUpMessage
                                                         ELSE NoMissingMessage,
                                                         guardrail)]
    /\ UNCHANGED <<engineVars, guardrail, conversation_history>>

\* interactive_chat going on to the prints without the user input joining the history
RecordUserSkipped ==
    /\ chat.pc = "record"
    /\ chat' = [chat EXCEPT !.pc = "print"]
    /\ UNCHANGED <<engineVars, guardrail, conversation_history, sent>>

\* interactive_chat after run_housing_agent returned: the user input joins the history
RecordUser ==
    /\ chat.pc = "record"
    /\ conversation_history' =
           Append(conversation_history, [role |-> "user", content |-> chat.user_input])
    /\ chat' = [chat EXCEPT !.pc = "print"]
    /\ UNCHANGED <<engineVars, guardrail, sent>>

\* the prints, then the message of the result joins the history
RecordAssistant ==
    /\ chat.pc = "print"
    /\ conversation_history' =
           Append(conversation_history, [role |-> "assistant", content |-> chat.result.message])
    /\ chat' = [chat EXCEPT !.pc = IF chat.result.status = "success" THEN "save" ELSE "input"]
    /\ UNCHANGED <<engineVars, guardrail, sent>>

\* the question about saving the recommendations; an error while writing the file is
\* caught by the loop
SaveChoice(save_choice) ==
    /\ chat.pc = "save"
    /\ chat' = [chat EXCEPT !.pc = "input"]
    /\ UNCHANGED <<engineVars, guardrail, conversation_history, sent>>

NextChat ==
    \/ \E line \in ChatLines : ReadInput(line)
    \/ KeyboardInterrupt
    \/ \E answer \in ModelAnswers : Triage(answer)
    \/ \E raises \in BOOLEAN : Research(raises)
    \/ \E raises \in BOOLEAN : Presentation(raises)
    \/ \E missing, raises \in BOOLEAN : GatherMissingDetails(missing, raises)
    \/ RecordUser
    \/ RecordAssistant
    \/ \E save_choice \in {"yes", "no"} : SaveChoice(save_choice)

SpecChat == Init /\ [][NextChat]_vars

(***************************************************************************)
(* Concurrent calls on one shared RiskEngine and one shared                *)
(* TradeOffAnalyzer.  A thread is a call in progress: its arguments, its   *)
(* position n in its loop, its local list acc (risk_factors of evaluate,   *)
(* scored_options of analyze_options), and its result once it is done.     *)
(* A step of evaluate is one iteration of its loop over self._rules, a     *)
(* step of analyze_options scores one option with self.weights; both read  *)
(* the shared object at the time of the step.  validate_query and          *)
(* compare_options are one step each.                                      *)
(***************************************************************************)
Thread(op, args) == [op |-> op, args |-> args, n |-> 1, acc |-> <<>>, done |-> FALSE,
                     result |-> None]

\* the body of the loop of evaluate for one rule: the factors it appends
RuleFactors(rule, context) ==
    IF ~CheckRaises(rule, context) /\ RuleCheck(rule, context)
    THEN <<[factor_name |-> rule.name,
            description |-> rule.description,
            risk_level |-> _determine_risk_level(rule, context),
            mitigation_suggestion |-> rule.mitigation]>>
    ELSE <<>>

\* evaluate after its loop: the profile of the local list risk_factors
ProfileOf(risk_factors) ==
    [overall_risk_level |-> _calculate_overall_risk(risk_factors),
     risk_factors |-> risk_factors,
     key_considerations |-> _generate_considerations(risk_factors),
     recommendations |-> _generate_recommendations(risk_factors)]

\* analyze_options after its loop: the comparison of the local list scored_options
ComparisonOf(scored_options, budget_max) ==
    LET ranked == SortedByScore(scored_options)
    IN [options |-> scored_options,
        ranked_order |-> [i \in 1..Len(ranked) |-> ranked[i].option_name],
        key_differences |-> _identify_differences(ranked, Ticks(budget_max)),
        recommendation_summary |-> _generate_summary(ranked, budget_max)]

\* a step of evaluate in which risk_factors is kept on the engine, one list for all calls
StepEvaluateSharedFactors(all, t, table) ==
    LET th == all[t]
    IN IF th.n > Len(table)
       THEN [all EXCEPT ![t] = [th EXCEPT !.done = TRUE, !.result = ProfileOf(th.acc)]]
       ELSE [u \in 1..Len(all) |->
                IF u = t
                THEN [th EXCEPT !.n = th.n + 1,
                                !.acc = th.acc \o RuleFactors(table[th.n], th.args)]
                ELSE IF all[u].op = "evaluate" /\ ~all[u].done
                THEN [all[u] EXCEPT !.acc = all[u].acc \o RuleFactors(table[th.n], th.args)]
                ELSE all[u]]

\* a step of evaluate of thread t: risk_factors is local to the call
StepEvaluate(all, t, table) ==
    LET th == all[t]
    IN IF th.n > Len(table)
       THEN [all EXCEPT ![t] = [th EXCEPT !.done = TRUE, !.result = ProfileOf(th.acc)]]
       ELSE [all EXCEPT ![t] = [th EXCEPT !.n = th.n + 1,
                                          !.acc = th.acc \o RuleFactors(table[th.n], th.args)]]

\* a step of analyze_options of thread t
StepAnalyze(all, t, w) ==
    LET th == all[t]
    IN IF th.n > Len(th.args.options)
       THEN [all EXCEPT ![t] = [th EXCEPT !.done = TRUE,
                                          !.result = ComparisonOf(th.acc, th.args.budget_max)]]
       ELSE [all EXCEPT ![t] =
                [th EXCEPT !.n = th.n + 1,
                           !.acc = Append(th.acc,
                                          _score_option(w, th.args.options[th.n],
                                                        th.args.budget_max,
                                                        th.args.workplace_minutes))]]

ConcurrentContexts ==
    {[commute_minutes |-> 91, return_time |-> EngineEnum("ReturnTime", "night"),
      transport_mode |-> EngineEnum("TransportMode", "walking"),
      living_arrangement |-> EngineEnum("LivingArrangement", "alone"),
      familiar_with_area |-> FALSE, budget_comfort |-> 50, has_night_activities |-> TRUE,
      risk_tolerance |-> ModelsEnum("RiskTolerance", "low")],
     [commute_minutes |-> 30, return_time |-> EngineEnum("ReturnTime", "daytime"),
      transport_mode |-> EngineEnum("TransportMode", "bus"),
      living_arrangement |-> EngineEnum("LivingArrangement", "family"),
      familiar_with_area |-> TRUE, budget_comfort |-> 100, has_night_activities |-> FALSE,
      risk_tolerance |-> ModelsEnum("RiskTolerance", "medium")]}

ConcurrentCalls ==
    {Thread("evaluate", context) : context \in ConcurrentContexts}
    \cup {Thread("analyze_options",
                 [options |-> <<OptionA, OptionB>>, budget_max |-> 70, workplace_minutes |-> 30])}
    \cup {Thread("validate_query", [user_input |-> "Which areas in Nairobi are most dangerous?"])}
    \cup {Thread("compare_options",
                 [options |-> <<[name |-> "A", commute_minutes |-> 50, rent_kes |-> 35,
                                transport_mode |-> EngineEnum("TransportMode", "walking")]>>])}

\* a caller starts a call while others may be in progress
Spawn(thread) ==
    /\ call.op \in {"none", "concurrent"}
    /\ Len(threads) < MaxThreads
    /\ call' = [op |-> "concurrent"]
    /\ threads' = Append(threads, thread)
    /\ UNCHANGED <<chatVars, weights, priorities, comparison, scored, guardrail, reframed, rules, profile,
                   cleaned>>

EvaluateStep(t) ==
    /\ threads[t].op = "evaluate" /\ ~threads[t].done
    /\ threads' = StepEvaluate(threads, t, rules)
    /\ UNCHANGED <<chatVars, weights, priorities, call, comparison, scored, guardrail, reframed, rules,
                   profile, cleaned>>

AnalyzeStep(t) ==
    /\ threads[t].op = "analyze_options" /\ ~threads[t].done
    /\ threads' = StepAnalyze(threads, t, weights)
    /\ UNCHANGED <<chatVars, weights, priorities, call, comparison, scored, guardrail, reframed, rules,
                   profile, cleaned>>

ValidateStep(t) ==
    /\ threads[t].op = "validate_query" /\ ~threads[t].done
    /\ threads' = [threads EXCEPT ![t] = [@ EXCEPT !.done = TRUE,
                                                   !.result = validate_query(threads[t].args.user_input)]]
    /\ UNCHANGED <<chatVars, weights, priorities, call, comparison, scored, guardrail, reframed, rules,
                   profile, cleaned>>

CompareStep(t) ==
    /\ threads[t].op = "compare_options" /\ ~threads[t].done
    /\ threads' = [threads EXCEPT ![t] = [@ EXCEPT !.done = TRUE,
                                                   !.result = compare_options(rules, threads[t].args.options)]]
    /\ UNCHANGED <<chatVars, weights, priorities, call, comparison, scored, guardrail, reframed, rules,
                   profile, cleaned>>

NextConcurrent ==
    \/ \E thread \in ConcurrentCalls : Spawn(thread)
    \/ \E t \in 1..Len(threads) : EvaluateStep(t)
    \/ \E t \in 1..Len(threads) : AnalyzeStep(t)
    \/ \E t \in 1..Len(threads) : ValidateStep(t)
    \/ \E t \in 1..Len(threads) : CompareStep(t)

SpecConcurrent == Init /\ [][NextConcurrent]_vars

(***************************************************************************)
(* Claims about the TradeOffAnalyzer                                       *)
(***************************************************************************)
IsScenario ==
    /\ call.op = "analyze_options"
    /\ call.options = <<OptionA, OptionB>>
    /\ call.budget_max = 70
    /\ call.workplace_minutes = 30

\* C1: with budget_max 70000 and workplace_minutes 30, the options A and B of the
\* end-to-end scenario are ranked A first: ranked_order = <<"A", "B">>.
C1_ScenarioRanksAFirst == IsScenario => comparison.ranked_order = <<"A", "B">>

\* the weighted sum of the five scores of a TradeOffScore, the computed
\* convenience_score included, times 100
WeightedSumOfFive(w, o) ==
    w.cost * o.cost_score + w.commute * o.commute_score + w.convenience * o.convenience_score
    + w.transport * o.priority_scores.transport + w.amenities * o.priority_scores.amenities

\* C2: the total_score of every scored option is the weighted sum of its cost,
\* commute, convenience, transport and amenities scores under the configured weights.
C2_TotalIsWeightedSum ==
    call.op = "_score_option" => scored.total_score * 100 = WeightedSumOfFive(weights, scored)

\* C3: ranked_order has the length of the input and is the option names in descending
\* order of total_score, options of equal total_score in their input order.
C3_RankedOrderIsStableDescending ==
    call.op = "analyze_options" =>
        LET o == comparison.options
            r == comparison.ranked_order
            n == Len(call.options)
        IN /\ Len(o) = n
           /\ Len(r) = n
           /\ \E p \in Permutations(1..n) :
                /\ \A i \in 1..n : r[i] = o[p[i]].option_name
                /\ \A i, j \in 1..n :
                      i < j => \/ o[p[i]].total_score > o[p[j]].total_score
                               \/ /\ o[p[i]].total_score = o[p[j]].total_score
                                  /\ p[i] < p[j]

\* a call whose ranking moves an option forward and keeps two tied options in place
C3_Witness ==
    /\ call.op = "analyze_options"
    /\ Len(call.options) = 3
    /\ comparison.options[2].total_score = comparison.options[3].total_score
    /\ comparison.options[1].total_score < comparison.options[2].total_score
    /\ comparison.ranked_order = <<"A", "C", "D">>

InRange(x, T) == 0 <= x /\ x <= 100 * T

\* C4: under the default weights every sub-score (cost, commute, transport,
\* convenience, amenities, situational) and the total_score lie in [0, 100].
C4_ScoresWithinBounds ==
    call.op = "_score_option" =>
        LET T == Ticks(call.budget_max) IN
        /\ InRange(scored.total_score, T)
        /\ InRange(scored.cost_score, T)
        /\ InRange(scored.commute_score, T)
        /\ InRange(scored.convenience_score, T)
        /\ \A k \in DOMAIN scored.priority_scores : InRange(scored.priority_scores[k], T)

\* an option far over budget and far beyond the target commute, with every
\* transport mode and more amenities than the amenities score can reward
C4_Witness ==
    /\ call.op = "_score_option"
    /\ call.budget_max > 0
    /\ {"rent_kes", "commute_minutes"} \subseteq DOMAIN call.option
    /\ call.option.rent_kes > 10 * call.budget_max
    /\ call.option.commute_minutes > 100 * call.target_commute
    /\ call.target_commute > 0
    /\ scored.cost_score = 0
    /\ scored.commute_score = 0
    /\ scored.priority_scores.transport = 100 * Ticks(call.budget_max)
    /\ scored.priority_scores.amenities = 100 * Ticks(call.budget_max)

(***************************************************************************)
(* Claims about the guardrail                                              *)
(***************************************************************************)
Present(x) == x # None /\ x # ""

\* C5: validate("Is Kibera safe to live in?") is not safe, is classified stereotypical
\* or dangerous_area_query, and carries a non-empty reframed_query.
C5_KiberaQueryIsUnsafe ==
    (call.op = "validate_query" /\ call.user_input = KiberaQuery) =>
        /\ guardrail.is_safe = FALSE
        /\ guardrail.query_type \in {STEREOTYPICAL, DANGEROUS_AREA_QUERY}
        /\ Present(guardrail.reframed_query)

\* a place name of the fixed list and a negative word both occur in the text
PlaceWithNegativeWord(text) ==
    \E a \in 1..Len(STEREOTYPED_AREAS), w \in 1..Len(dangerous_words) :
        Contains(Lower(text), STEREOTYPED_AREAS[a]) /\ Contains(Lower(text), dangerous_words[w])

StereotypeDetected(text) ==
    AnyPatternMatches(STEREOTYPE_PATTERNS, Lower(text)) \/ PlaceWithNegativeWord(text)

\* C6: the result of validate has a reframed_query iff is_safe is false, and is_safe is
\* true exactly when the query type is standard and no stereotype is detected.
C6_ReframedIffUnsafe ==
    call.op = "validate_query" =>
        /\ Present(guardrail.reframed_query) <=> ~guardrail.is_safe
        /\ guardrail.reframed_query = None <=> guardrail.is_safe
        /\ guardrail.is_safe <=>
              (guardrail.query_type = STANDARD /\ ~StereotypeDetected(call.user_input))

\* a query of standard type that is unsafe by a detected stereotype alone, reframed
C6_Witness ==
    /\ call.op = "validate_query"
    /\ guardrail.query_type = STANDARD
    /\ ~guardrail.is_safe
    /\ Present(guardrail.reframed_query)

\* the group of QUERY_TYPE_PATTERNS for the query type has a matching pattern
GroupMatches(query_type, text) ==
    \E n \in 1..Len(QUERY_TYPE_PATTERNS) :
        /\ QUERY_TYPE_PATTERNS[n].query_type = query_type
        /\ AnyPatternMatches(QUERY_TYPE_PATTERNS[n].patterns, Lower(text))

MatchesNothing(text) ==
    /\ \A q \in NonStandardTypes : ~GroupMatches(q, text)
    /\ ~AnyPatternMatches(STEREOTYPE_PATTERNS, Lower(text))
    /\ ~PlaceWithNegativeWord(text)

\* C7: a text that matches no query-type pattern, no stereotype pattern and no
\* place-name/negative-word pair is validated as standard and safe, with no reframed
\* query, no warning and no disclaimer.
C7_PlainTextIsSafe ==
    (call.op = "validate_query" /\ MatchesNothing(call.user_input)) =>
        guardrail = [is_safe |-> TRUE, query_type |-> STANDARD, reframed_query |-> None,
                     warning_message |-> None, advisory_disclaimer |-> None]

\* the query of the claim has been validated
C7_Witness ==
    /\ call.op = "validate_query"
    /\ call.user_input = BedroomQuery
    /\ MatchesNothing(call.user_input)
    /\ guardrail.is_safe

\* the fixed sentence reframe_query appends, or the lead-in it prepends, for the type
FixedSentence(query_type) ==
    CASE query_type = DANGEROUS_AREA_QUERY -> DangerousSentence
      [] query_type = CRIME_PREDICTION -> PredictionLeadIn
      [] query_type = STEREOTYPICAL -> StereotypeSentence
      [] OTHER -> ""

CountOccurrences(s, sub) ==
    Cardinality({i \in 1..(Len(s) - Len(sub) + 1) : SubSeq(s, i, i + Len(sub) - 1) = sub})

\* C8: reframe applied to its own output, with the same query type, holds the fixed
\* clarifying sentence or lead-in of that type at most once.
C8_NoSecondInsertion ==
    (call.op = "reframe_again" /\ FixedSentence(call.query_type) # "") =>
        CountOccurrences(Lower(reframed), Lower(FixedSentence(call.query_type))) <= 1

\* C9: classify returns the type of the first group, in the order dangerous-area,
\* safety-ranking, crime-prediction, stereotype, that has a matching pattern; stereotypical
\* if no group matches and a generic stereotype pattern does; standard otherwise.
C9_FirstGroupWins ==
    call.op = "validate_query" =>
        LET text == call.user_input IN
        guardrail.query_type =
            IF GroupMatches(DANGEROUS_AREA_QUERY, text) THEN DANGEROUS_AREA_QUERY
            ELSE IF GroupMatches(SAFETY_RANKING, text) THEN SAFETY_RANKING
            ELSE IF GroupMatches(CRIME_PREDICTION, text) THEN CRIME_PREDICTION
            ELSE IF GroupMatches(STEREOTYPICAL, text) THEN STEREOTYPICAL
            ELSE IF AnyPatternMatches(STEREOTYPE_PATTERNS, Lower(text)) THEN STEREOTYPICAL
            ELSE STANDARD

\* a text that matches a dangerous-area pattern and a pattern of a later group
C9_Witness ==
    /\ call.op = "validate_query"
    /\ GroupMatches(DANGEROUS_AREA_QUERY, call.user_input)
    /\ GroupMatches(SAFETY_RANKING, call.user_input)
    /\ guardrail.query_type = DANGEROUS_AREA_QUERY

(***************************************************************************)
(* Claims about the RiskEngine                                             *)
(***************************************************************************)
CommuteFactors(p) ==
    {i \in 1..Len(p.risk_factors) : p.risk_factors[i].factor_name = "Long Commute Duration"}

\* C10: for every context with commute_minutes > 90, whatever its other fields,
\* evaluate emits the commute-duration factor, and its level is elevated.
C10_LongCommuteIsElevated ==
    (call.op = "evaluate" /\ call.context.commute_minutes > 90) =>
        /\ CommuteFactors(profile) # {}
        /\ \A i \in CommuteFactors(profile) : profile.risk_factors[i].risk_level = ELEVATED

\* a commute just over the threshold, in a context where no other rule fires
C10_Witness ==
    /\ call.op = "evaluate"
    /\ call.context.commute_minutes = 91
    /\ Len(profile.risk_factors) = 1
    /\ profile.risk_factors[1].risk_level = ELEVATED


\* C11: in every profile of evaluate the commute-duration factor, if present, is
\* elevated for commute_minutes > 90, moderate for 45 < commute_minutes <= 90 and
\* low for commute_minutes <= 45; every other emitted factor is moderate.
C11_FactorLevels ==
    call.op = "evaluate" =>
        \A i \in 1..Len(profile.risk_factors) :
            LET level == profile.risk_factors[i].risk_level
                commute == call.context.commute_minutes
            IN IF i \in CommuteFactors(profile)
               THEN level = (IF commute > 90 THEN ELEVATED
                             ELSE IF commute > 45 THEN MODERATE
                             ELSE LOW)
               ELSE level = MODERATE

\* a commute between the thresholds: the commute factor is emitted, with another factor
C11_Witness ==
    /\ call.op = "evaluate"
    /\ call.context.commute_minutes \in 46..90
    /\ \E i \in CommuteFactors(profile) : profile.risk_factors[i].risk_level = MODERATE
    /\ \E i \in 1..Len(profile.risk_factors) : i \notin CommuteFactors(profile)


NumberAt(risk_factors, level) ==
    Cardinality({i \in 1..Len(risk_factors) : risk_factors[i].risk_level = level})

OverallOf(risk_factors) ==
    IF NumberAt(risk_factors, ELEVATED) >= 2 THEN ELEVATED
    ELSE IF NumberAt(risk_factors, ELEVATED) + NumberAt(risk_factors, MODERATE) >= 1 THEN MODERATE
    ELSE LOW

\* C12: the overall level is determined by the factor levels alone: elevated exactly
\* when at least two factors are elevated, otherwise moderate when some factor is
\* moderate or elevated, otherwise low (no factors, or only low ones).
C12_OverallFromFactorLevels ==
    /\ call.op = "evaluate" => profile.overall_risk_level = OverallOf(profile.risk_factors)
    /\ call.op = "_calculate_overall_risk" => profile = OverallOf(call.risk_factors)

\* two elevated factors among others give an elevated overall level
C12_Witness ==
    /\ call.op = "_calculate_overall_risk"
    /\ NumberAt(call.risk_factors, ELEVATED) = 2
    /\ NumberAt(call.risk_factors, LOW) >= 1
    /\ profile = ELEVATED


\* the rule of the table that emitted the factor, by its name
RuleOf(factor) == CHOOSE n \in 1..Len(rules) : rules[n].name = factor.factor_name

FixedCount == Len(GeneralRecommendations)

\* C13: the recommendations are one line per emitted factor, its mitigation, in the
\* order of the rule table (the order of risk_factors and key_considerations too),
\* followed by the fixed non-empty list of general suggestions, whichever rules fired.
C13_RecommendationsPerFactorThenFixed ==
    call.op = "evaluate" =>
        LET factors == profile.risk_factors
            n == Len(factors)
        IN /\ FixedCount > 0
           /\ Len(profile.recommendations) = n + FixedCount
           /\ Len(profile.key_considerations) = n
           /\ \A i \in 1..n :
                 /\ RuleCheck(rules[RuleOf(factors[i])], call.context)
                 /\ profile.recommendations[i] = BULLET \o rules[RuleOf(factors[i])].mitigation
                 /\ Contains(profile.key_considerations[i], rules[RuleOf(factors[i])].name)
           /\ \A i \in 1..n, j \in 1..n : i < j => RuleOf(factors[i]) < RuleOf(factors[j])
           /\ \A n1 \in 1..Len(rules) :
                 RuleCheck(rules[n1], call.context) => \E i \in 1..n : RuleOf(factors[i]) = n1
           /\ SubSeq(profile.recommendations, n + 1, n + FixedCount) = GeneralRecommendations

\* several rules fired: their mitigations come first, then the fixed list
C13_Witness ==
    /\ call.op = "evaluate"
    /\ Len(profile.risk_factors) >= 3
    /\ Len(profile.recommendations) = Len(profile.risk_factors) + 9
    /\ profile.recommendations[Len(profile.risk_factors) + 1]
           = BULLET \o "Consider verified ride-hailing services for late-night travel"


CostVsCommuteClause(option) ==
    IF option.commute_minutes > 45 /\ option.rent_kes < 50 THEN "Lower rent but longer commute"
    ELSE IF option.commute_minutes < 30 /\ option.rent_kes > 80 THEN "Shorter commute but higher rent"
    ELSE "Balanced cost and commute"

TransportClause(mode) ==
    CASE mode = "walking" -> "Walking access - good for health, depends on distance"
      [] mode = "matatu" -> "Matatu access - affordable, schedule-dependent"
      [] mode = "private" -> "Private transport - flexible but higher cost"

HasComparedMode(option) ==
    "transport_mode" \in DOMAIN option /\ option.transport_mode.value \in ComparedModes

\* C14: when every option has transport_mode walking, matatu or private,
\* compare_options returns without raising, and the trade-off note of each option is
\* its cost-vs-commute clause followed by the clause of its transport mode.
C14_TradeOffNoteHasTransportClause ==
    (/\ call.op = "compare_options"
     /\ \A i \in 1..Len(call.options) : HasComparedMode(call.options[i])) =>
        /\ profile.raised = None
        /\ \A i \in 1..Len(call.options) :
              profile.results[i].trade_offs =
                  CostVsCommuteClause(call.options[i]) \o "; "
                  \o TransportClause(call.options[i].transport_mode.value)


\* the option with each missing field set to the value the claim names for it
WithDefaults(option) ==
    [f \in DOMAIN option \cup {"rent_kes", "commute_minutes", "transport_options", "amenities"} |->
        IF f \in DOMAIN option THEN option[f]
        ELSE CASE f = "rent_kes" -> 50
               [] f = "commute_minutes" -> 30
               [] f = "transport_options" -> <<>>
               [] f = "amenities" -> <<>>]

\* C16: an option with missing fields is scored as the same option with rent 50000,
\* commute 30, no transport options and no amenities in their place; with
\* budget_max <= 0 the cost score of any positive rent is 60.
C16_MissingFieldsAndZeroBudget ==
    call.op = "_score_option" =>
        /\ scored = _score_option(weights, WithDefaults(call.option), call.budget_max,
                                  call.target_commute)
        /\ (call.budget_max <= 0 /\ WithDefaults(call.option).rent_kes > 0) =>
               scored.cost_score = 60 * Ticks(call.budget_max)

\* an option without rent and commute, scored under a budget of 0
C16_Witness ==
    /\ call.op = "_score_option"
    /\ "rent_kes" \notin DOMAIN call.option
    /\ "commute_minutes" \notin DOMAIN call.option
    /\ call.budget_max = 0
    /\ scored.cost_score = 60 * Ticks(call.budget_max)
    /\ scored.commute_score = 100 * Ticks(call.budget_max)

(***************************************************************************)
(* Claims about construction                                               *)
(***************************************************************************)
SumOfWeights(w) ==
    w.cost + w.commute + w.convenience + w.transport + w.amenities

\* C15: a weight mapping that does not sum to 1.0 is rejected at construction, so
\* analyze_options never runs on an analyzer whose weights do not sum to 1.0
\* (100 hundredths).
C15_NoAnalysisWithBadWeights ==
    call.op = "analyze_options" => SumOfWeights(weights) = 100


(***************************************************************************)
(* Claims about the comparison returned by analyze_options                 *)
(***************************************************************************)
\* C17: the options of every comparison are in descending order of total_score, the
\* i-th of them being the score record of the i-th name of ranked_order.
C17_OptionsAreRanked ==
    call.op = "analyze_options" =>
        /\ \A i \in 1..(Len(comparison.options) - 1) :
              comparison.options[i].total_score >= comparison.options[i + 1].total_score
        /\ \A i \in 1..Len(comparison.options) :
              comparison.options[i].option_name = comparison.ranked_order[i]


(***************************************************************************)
(* Claims about the request paths                                          *)
(***************************************************************************)
\* C18: on every request path the query has passed through the guardrail when
\* requirement extraction hands the text of the current turn to the model, and that
\* text is the reframed query whenever the guardrail produced one.
C18_GuardrailBeforeExtraction ==
    (call.op \in RequestPaths /\ call.pc = "extracted") =>
        /\ call.validated
        /\ Present(guardrail.reframed_query) => call.model_input = guardrail.reframed_query


(***************************************************************************)
(* Claims about postprocess_response                                       *)
(***************************************************************************)
FooterMark == "This is advisory information"

\* disclaimer-like language: the phrase postprocess_response looks for, or the footer
HasDisclaimer(text) ==
    Contains(text, "Based on your specific needs") \/ Contains(text, FooterMark)

EndsWith(text, suffix) ==
    Len(text) >= Len(suffix) /\ SubSeq(text, Len(text) - Len(suffix) + 1, Len(text)) = suffix

\* C19: postprocess appends the advisory footer to a response without disclaimer-like
\* language, appends nothing to a response that has it, and a response that carries
\* the footer does not get a second one.
C19_FooterOnceWhenNoDisclaimer ==
    /\ call.op = "postprocess_response" =>
          IF HasDisclaimer(call.response)
          THEN ~EndsWith(cleaned, AdvisoryFooter)
          ELSE EndsWith(cleaned, AdvisoryFooter)
    /\ call.op = "postprocess_again" => CountOccurrences(cleaned, FooterMark) <= 1


(***************************************************************************)
(* Claims about concurrent calls                                           *)
(***************************************************************************)
\* the result of the call of a thread when it runs alone
Alone(th) ==
    CASE th.op = "evaluate" -> evaluate(rules, th.args)
      [] th.op = "analyze_options" ->
             analyze_options(weights, th.args.options, th.args.budget_max,
                             th.args.workplace_minutes)
      [] th.op = "validate_query" -> validate_query(th.args.user_input)
      [] th.op = "compare_options" -> compare_options(rules, th.args.options)

\* C20: no step of a call of evaluate, compare_options, analyze_options or validate
\* changes the rule table, the weights or the priorities, and under every
\* interleaving of the calls each finished call has the result it has when run alone.
C20_CallsAreIndependent ==
    /\ rules = _initialize_rules
    /\ weights = DEFAULT_WEIGHTS
    /\ priorities = DEFAULT_PRIORITIES
    /\ \A t \in 1..Len(threads) : threads[t].done => threads[t].result = Alone(threads[t])

\* a call of evaluate has finished with factors while another call of evaluate on the
\* same engine, started before it finished, is in the middle of its loop
C20_Witness ==
    /\ Len(threads) = 2
    /\ threads[2].op = "evaluate" /\ threads[2].done
    /\ Len(threads[2].result.risk_factors) >= 3
    /\ threads[1].op = "evaluate" /\ ~threads[1].done /\ threads[1].n = 4


(***************************************************************************)
(* Claims about evaluate with missing context values                       *)
(***************************************************************************)
\* the rules of the table, in table order, whose check neither raises nor is false
FiringRules(table, ctx) ==
    LET Fires(rule) == ~CheckRaises(rule, ctx) /\ RuleCheck(rule, ctx)
    IN SelectSeq(table, Fires)

\* C21: when the check of a rule raises for the context, evaluate still returns a
\* profile, and its factors are exactly those of the other rules whose checks hold,
\* in the order of the rule table.
C21_RaisingRuleIsSkipped ==
    call.op = "evaluate" =>
        LET firing == FiringRules(rules, call.context)
        IN /\ DOMAIN profile = {"overall_risk_level", "risk_factors", "key_considerations",
                                 "recommendations"}
           /\ Len(profile.risk_factors) = Len(firing)
           /\ \A i \in 1..Len(firing) :
                 /\ profile.risk_factors[i].factor_name = firing[i].name
                 /\ profile.risk_factors[i].mitigation_suggestion = firing[i].mitigation

\* the commute check raised (commute_minutes is None) and later rules still fired
C21_Witness ==
    /\ call.op = "evaluate"
    /\ CheckRaises(rules[1], call.context)
    /\ CheckRaises(rules[8], call.context)
    /\ Len(profile.risk_factors) >= 3
    /\ profile.risk_factors[1].factor_name = "Night Return Time"


(***************************************************************************)
(* Claims about the chat session                                           *)
(***************************************************************************)
\* the lines a user can type that the guardrail judges unsafe and reframes
UnsafeInputs ==
    {strip(line) : line \in {l \in ChatLines : LET g == validate_query(strip(l))
                                               IN ~g.is_safe /\ Truthy(g.reframed_query)}}

\* C22: no contents handed to the generative model, in the turn of an unsafe query or
\* in a later turn, include the original text of a query the guardrail reframed.
C22_UnsafeTextNeverSent ==
    \A p \in 1..Len(sent) : \A i \in 1..Len(sent[p]) : sent[p][i].text \notin UnsafeInputs


(***************************************************************************)
(* Claims about the two definitions of the category values                 *)
(***************************************************************************)
\* the context with every category value replaced by the same-named value of the
\* classes defined in risk_engine.py
WithEngineValues(ctx) ==
    [ctx EXCEPT !.return_time = EngineEnum("ReturnTime", @.value),
                !.transport_mode = EngineEnum("TransportMode", @.value),
                !.living_arrangement = EngineEnum("LivingArrangement", @.value)]

\* C23: evaluate returns for a context carrying the category values of the models
\* module the profile it returns for the same-named values of the risk-engine module.
C23_ModelsValuesInterchangeable ==
    call.op = "evaluate" => profile = evaluate(rules, WithEngineValues(call.context))


(***************************************************************************)
(* Claims about the strengths and the trade-offs of a scored option        *)
(***************************************************************************)
GenericStrength(option) == Get(option, "name", "This area") \o " may suit your specific priorities"

GenericTradeOff(option) ==
    Get(option, "name", "This area") \o " offers balanced trade-offs for your criteria"

\* a threshold of _identify_strengths is met
StrengthGated(option, o, T) ==
    \/ o.cost_score >= 75 * T
    \/ o.commute_score >= 75 * T
    \/ o.priority_scores.transport >= 80 * T
    \/ Len(Get(option, "amenities", <<>>)) >= 4

\* a threshold of _identify_tradeoffs is met
TradeOffGated(option, o, T) ==
    LET rent == Get(option, "rent_kes", 50)
        commute == Get(option, "commute_minutes", 30)
    IN \/ rent < 40 /\ commute > 45
       \/ rent > 70 /\ commute < 30
       \/ o.priority_scores.transport < 60 * T
       \/ rent > 60
       \/ commute > 60

InSeq(x, list) == \E i \in 1..Len(list) : list[i] = x

\* C24: the strengths and the trade_offs of every scored option are non-empty; the
\* generic sentence is the whole list when no threshold is met and is absent when one
\* is met; the summary names the first trade-off of the top option.  The second piece
\* of the summary is the budget, a number; the text pieces start at the third.
C24_GenericSentenceOnlyAlone ==
    call.op = "analyze_options" =>
        LET T == Ticks(call.budget_max)
            summary == comparison.recommendation_summary
        IN /\ \A i \in 1..Len(comparison.options) :
                 LET o == comparison.options[i]
                     option == call.options[i]
                 IN /\ o.strengths # <<>>
                    /\ o.trade_offs # <<>>
                    /\ IF StrengthGated(option, o, T)
                       THEN ~InSeq(GenericStrength(option), o.strengths)
                       ELSE o.strengths = <<GenericStrength(option)>>
                    /\ IF TradeOffGated(option, o, T)
                       THEN ~InSeq(GenericTradeOff(option), o.trade_offs)
                       ELSE o.trade_offs = <<GenericTradeOff(option)>>
           /\ call.options # <<>> =>
                 \E k \in 3..(Len(summary) - 1) :
                    /\ summary[k] = "Key trade-off: "
                    /\ summary[k + 1] # "Balanced across criteria"
                    /\ \E i \in 1..Len(comparison.options) :
                          /\ comparison.options[i].option_name = comparison.ranked_order[1]
                          /\ comparison.options[i].trade_offs[1] = summary[k + 1]

\* a comparison in which the top option has only the generic trade-off and another
\* option has only the generic strength
C24_Witness ==
    /\ call.op = "analyze_options"
    /\ Len(comparison.options) >= 2
    /\ \E k \in 3..Len(comparison.recommendation_summary) :
          comparison.recommendation_summary[k] = "Key trade-off: "
    /\ \E i \in 1..Len(comparison.options) :
          /\ comparison.options[i].option_name = comparison.ranked_order[1]
          /\ comparison.options[i].trade_offs = <<GenericTradeOff(call.options[i])>>
    /\ \E i \in 1..Len(comparison.options) :
          comparison.options[i].strengths = <<GenericStrength(call.options[i])>>


(***************************************************************************)
(* Claims about the levels evaluate can return                             *)
(***************************************************************************)
ElevatedFactors(p) == {i \in 1..Len(p.risk_factors) : p.risk_factors[i].risk_level = ELEVATED}

\* C25: every profile of evaluate has at most one elevated factor, which is the
\* commute-duration factor, and its overall level is not elevated.
C25_OverallNeverElevated ==
    call.op = "evaluate" =>
        /\ Cardinality(ElevatedFactors(profile)) <= 1
        /\ ElevatedFactors(profile) \subseteq CommuteFactors(profile)
        /\ profile.overall_risk_level # ELEVATED

\* every rule that can fire together has fired, the commute factor is elevated, and
\* the overall level is moderate
C25_Witness ==
    /\ call.op = "evaluate"
    /\ Cardinality(ElevatedFactors(profile)) = 1
    /\ Len(profile.risk_factors) = 6
    /\ profile.overall_risk_level = MODERATE

\* C26: the profile of evaluate holds the commute-duration factor exactly when
\* commute_minutes > 60; a commute of 46 to 60 minutes gives no commute factor and a
\* commute factor never has level low.
C26_CommuteFactorIffOverSixty ==
    call.op = "evaluate" =>
        /\ CommuteFactors(profile) # {} <=> call.context.commute_minutes > 60
        /\ call.context.commute_minutes \in 46..60 => CommuteFactors(profile) = {}
        /\ \A i \in CommuteFactors(profile) : profile.risk_factors[i].risk_level # LOW

\* a commute of 60 minutes, above the moderate threshold, with other factors and no
\* commute factor
C26_Witness ==
    /\ call.op = "evaluate"
    /\ call.context.commute_minutes = 60
    /\ CommuteFactors(profile) = {}
    /\ Len(profile.risk_factors) = 2


(***************************************************************************)
(* Claims about the profiles of compare_options                            *)
(***************************************************************************)
FixedFactors == {"Evening Return Time", "Living Alone", "New to Area", "Tight Budget Constraints"}

FactorNames(risk_evaluation) ==
    {risk_evaluation.risk_factors[i].factor : i \in 1..Len(risk_evaluation.risk_factors)}

\* C27: compare_options returns one result per option, in the order of the options, and
\* the risk profile of every result holds the evening-return, living-alone, new-to-area
\* and tight-budget factors and has overall level moderate, whatever the commute, the
\* transport mode and the rent of the option.
C27_EveryOptionIsModerate ==
    call.op = "compare_options" =>
        /\ profile.raised = None
        /\ Len(profile.results) = Len(call.options)
        /\ \A i \in 1..Len(call.options) :
              /\ profile.results[i].name = call.options[i].name
              /\ profile.results[i].commute_minutes = call.options[i].commute_minutes
              /\ FixedFactors \subseteq FactorNames(profile.results[i].risk_evaluation)
              /\ profile.results[i].risk_evaluation.overall_risk_level = "moderate"


(***************************************************************************)
(* Claims about the text forwarded for an unsafe query                     *)
(***************************************************************************)
\* C28: for every text validate_query judges unsafe the reframed_query differs from
\* the text, so what triage forwards in place of an unsafe query is never the
\* unchanged original.
C28_UnsafeQueryIsRewritten ==
    (call.op = "validate_query" /\ ~guardrail.is_safe) =>
        /\ guardrail.reframed_query # call.user_input
        /\ Truthy(guardrail.reframed_query)


(***************************************************************************)
(* Claims about run_housing_agent and the loop of interactive_chat         *)
(***************************************************************************)
IsPrefix(s, t) == Len(s) <= Len(t) /\ SubSeq(t, 1, Len(s)) = s

Returned == chat.result.status # "none"

\* C29: run_housing_agent runs triage first; it runs research, then presentation, and
\* returns status "success" exactly when the requirements have has_all_details, and
\* otherwise runs only the follow-up step and returns "needs_more_info"; the response
\* holds warning_message and advisory_disclaimer exactly when triage returned them
\* non-empty.
C29_BranchOnHasAllDetails ==
    /\ chat.steps # <<>> => chat.steps[1] = "triage"
    /\ IF chat.has_all_details
       THEN IsPrefix(chat.steps, <<"triage", "research", "presentation">>)
       ELSE IsPrefix(chat.steps, <<"triage", "gather">>)
    /\ Returned =>
          /\ chat.result.status = "success" <=> chat.has_all_details
          /\ chat.result.status = "needs_more_info" <=> ~chat.has_all_details
          /\ chat.result.status = "success" =>
                chat.steps = <<"triage", "research", "presentation">>
          /\ chat.result.status = "needs_more_info" => chat.steps = <<"triage", "gather">>
          /\ "warning_message" \in DOMAIN chat.result <=> Truthy(guardrail.warning_message)
          /\ "advisory_disclaimer" \in DOMAIN chat.result
                <=> Truthy(guardrail.advisory_disclaimer)

\* a run on a safe query returned "needs_more_info" with no warning after a run on a
\* stereotyping query returned "success" with a warning
C29_Witness ==
    /\ Returned
    /\ chat.result.status = "needs_more_info"
    /\ "warning_message" \notin DOMAIN chat.result
    /\ chat.steps = <<"triage", "gather">>
    /\ Len(conversation_history) = 2
    /\ conversation_history[2].content = PresentationMessage
    /\ Truthy(validate_query(conversation_history[1].content).warning_message)

Alternates(history) ==
    /\ Len(history) % 2 = 0
    /\ \A i \in 1..Len(history) :
          history[i].role = IF i % 2 = 1 THEN "user" ELSE "assistant"

AgentSteps == {"triage", "research", "presentation", "gather"}

\* C30: at the start of every iteration of the loop the history has even length and
\* alternates user, assistant; no step of run_housing_agent, raising or not, changes
\* the history; a completed turn adds the user message and then the assistant message;
\* a quit word ends the loop with no agent call and no change of the history.  The
\* step that reads a line is the one that counts the iteration.
C30_HistoryAlternates ==
    /\ [](chat.pc = "input" => Alternates(conversation_history))
    /\ [][/\ chat.pc \in AgentSteps => conversation_history' = conversation_history
          /\ chat.pc = "print" =>
                conversation_history' =
                    SubSeq(conversation_history, 1, Len(conversation_history) - 1)
                    \o <<[role |-> "user", content |-> chat.user_input],
                         [role |-> "assistant", content |-> chat.result.message]>>
          /\ (chat.pc = "input" /\ chat'.turns = chat.turns + 1 /\ chat'.pc = "ended") =>
                /\ conversation_history' = conversation_history
                /\ sent' = sent
                /\ chat'.steps = <<>>]_vars

\* the second iteration starts after a turn that completed and before it a turn in
\* which the agent raised
C30_Witness ==
    /\ chat.pc = "input"
    /\ chat.turns = 2
    /\ Len(conversation_history) = 2
    /\ Len(sent) >= 3

====
